---- MODULE Spec2Model ----
(***************************************************************************)
(* A model of the WebGL capture compiler: the scalar codec, the draw-call  *)
(* selector, the attribute classifier, the vertex decoder with its glTF    *)
(* and OBJ encoders (utils/webglDump.ts), the GLB container               *)
(* (utils/glb.ts) and the worker that runs them (workers/gltfWorker.ts).   *)
(*                                                                         *)
(* JavaScript values are encoded as follows.                               *)
(*   - An optional field (absent / undefined, or present) is a sequence of *)
(*     length 0 or 1: <<>> is undefined, <<v>> is the value v.             *)
(*   - A number read from the raw buffer is a record [k, hi, lo]: for      *)
(*     k = "int" it is the integer hi * 65536 + lo with 0 <= lo < 65536    *)
(*     (32-bit values do not fit the integers of TLC); for k = "f32" it    *)
(*     is the 32-bit float whose bit pattern is hi * 65536 + lo.           *)
(*   - A quotient computed by normalizeInt is a record [num, den] of two   *)
(*     such integers, den > 0; the division itself is exact in the real    *)
(*     numbers and is kept symbolic.                                       *)
(*   - A number computed by the position loops, a stored position and a    *)
(*     byte are integers; a minimum or maximum is [t, v] with t = "num"    *)
(*     (the number v), "inf" or "ninf" (Infinity, -Infinity).              *)
(*   - A call that may throw returns [ok, err, val]: ok = FALSE means the  *)
(*     call threw the Error whose message (or kind) is err.                *)
(***************************************************************************)
EXTENDS Integers, Sequences, FiniteSets, TLC

VARIABLES
    inbox,        \* worker: messages posted to the worker, not yet handled
    captureJson,  \* worker: module-level captureJson (<<>> is null)
    captureBin,   \* worker: module-level captureBin  (<<>> is null)
    selected,     \* worker: module-level selected    (<<>> is null)
    outbox,       \* worker: messages the worker has posted, oldest first
    args,         \* a direct call of an exported or internal function: its inputs
    ret,          \* what the calls returned: [gltf, obj, codec, glb, heap]; heap is the
                  \* object heap of buildGlb, the other fields are <<>> before the call
    ui,           \* page: the state of the App component and of its pending callbacks
    mem           \* the ArrayBuffers: who owns each, and the reads made of them

vars == <<inbox, captureJson, captureBin, selected, outbox, args, ret, ui, mem>>

pageVars == <<ui, mem>>

workerVars == <<inbox, captureJson, captureBin, selected, outbox>>

callVars == <<args, ret>>

----------------------------------------------------------------------------
(* Generic helpers of the encoding.                                        *)

Ok(v) == [ok |-> TRUE, err |-> "", val |-> v]

Throw(e) == [ok |-> FALSE, err |-> e, val |-> 0]

IsSome(o) == Len(o) = 1

Min2(a, b) == IF a <= b THEN a ELSE b

RangeSet(lo, n) == {a \in lo .. (lo + n - 1) : TRUE}

RECURSIVE Pow2(_)
Pow2(n) == IF n = 0 THEN 1 ELSE 2 * Pow2(n - 1)

SetMin(S) == CHOOSE x \in S : \A y \in S : x <= y

----------------------------------------------------------------------------
(* Wide integers: [k |-> "int", hi, lo] is hi * 65536 + lo.                *)

Half == 256 * 256

Wide(hi, lo) == [k |-> "int", hi |-> hi, lo |-> lo]

WideOfInt(n) == Wide(n \div Half, n % Half)

WideNeg(w) == IF w.lo = 0 THEN Wide(0 - w.hi, 0) ELSE Wide(0 - w.hi - 1, Half - w.lo)

WideLt(a, b) == a.hi < b.hi \/ (a.hi = b.hi /\ a.lo < b.lo)

WideOne == Wide(0, 1)

WideZero == Wide(0, 0)

Quot(n, d) == [num |-> n, den |-> d]

----------------------------------------------------------------------------
(* Scalar codec: bytesPerComponent, readScalar, normalizeInt.              *)

GL_BYTE == 5120

GL_UNSIGNED_BYTE == 5121

GL_SHORT == 5122

GL_UNSIGNED_SHORT == 5123

GL_INT == 5124

GL_UNSIGNED_INT == 5125

GL_FLOAT == 5126

(* The messages of the two unsupported-type errors are kept without the    *)
(* ": ${typeEnum}" that the code appends.                                  *)
bytesPerComponent(typeEnum) ==
    CASE typeEnum = GL_BYTE -> Ok(1)
      [] typeEnum = GL_UNSIGNED_BYTE -> Ok(1)
      [] typeEnum = GL_SHORT -> Ok(2)
      [] typeEnum = GL_UNSIGNED_SHORT -> Ok(2)
      [] typeEnum = GL_INT -> Ok(4)
      [] typeEnum = GL_UNSIGNED_INT -> Ok(4)
      [] typeEnum = GL_FLOAT -> Ok(4)
      [] OTHER -> Throw("Unsupported component type enum")

(* An ArrayBuffer is [byteLength, bytes]: bytes holds its first Len(bytes)  *)
(* bytes and every byte after them is zero.                                *)
ByteAt(bin, a) == IF a < Len(bin.bytes) THEN bin.bytes[a + 1] ELSE 0

(* DataView's bounds check: a read of w bytes at byteOffset is in bounds.  *)
InView(bin, byteOffset, w) == byteOffset >= 0 /\ byteOffset + w <= bin.byteLength

DataViewRangeError == "RangeError: Offset is outside the bounds of the DataView"

U16At(bin, a) == ByteAt(bin, a) + 256 * ByteAt(bin, a + 1)

Signed(v, bits) == IF v >= Pow2(bits - 1) THEN v - Pow2(bits) ELSE v

DataViewGet(bin, byteOffset, typeEnum) ==
    CASE typeEnum = GL_BYTE -> WideOfInt(Signed(ByteAt(bin, byteOffset), 8))
      [] typeEnum = GL_UNSIGNED_BYTE -> WideOfInt(ByteAt(bin, byteOffset))
      [] typeEnum = GL_SHORT -> WideOfInt(Signed(U16At(bin, byteOffset), 16))
      [] typeEnum = GL_UNSIGNED_SHORT -> WideOfInt(U16At(bin, byteOffset))
      [] typeEnum = GL_INT ->
           Wide(Signed(U16At(bin, byteOffset + 2), 16), U16At(bin, byteOffset))
      [] typeEnum = GL_UNSIGNED_INT ->
           Wide(U16At(bin, byteOffset + 2), U16At(bin, byteOffset))
      [] OTHER ->
           [k |-> "f32", hi |-> U16At(bin, byteOffset + 2), lo |-> U16At(bin, byteOffset)]

readScalar(dv, byteOffset, typeEnum) ==
    IF typeEnum \notin GL_BYTE .. GL_FLOAT
    THEN Throw("Unsupported scalar type enum")
    ELSE IF ~InView(dv, byteOffset, bytesPerComponent(typeEnum).val)
    THEN Throw(DataViewRangeError)
    ELSE Ok(DataViewGet(dv, byteOffset, typeEnum))

WideMinusOne == WideNeg(WideOne)

(* A faulty variant of the clamp below: the quotient is not clamped.       *)
Unclamped(val, d) == Quot(val, d)

(* Math.max(-1, val / d) for d > 0: val / d < -1 exactly when val < -d.    *)
MaxMinusOne(val, d) == IF WideLt(val, WideNeg(d)) THEN Quot(WideMinusOne, WideOne) ELSE Quot(val, d)

(* The default branch returns val itself: a quotient by one.               *)
normalizeInt(val, typeEnum) ==
    CASE typeEnum = GL_BYTE -> Ok(MaxMinusOne(val, WideOfInt(127)))
      [] typeEnum = GL_UNSIGNED_BYTE -> Ok(Quot(val, WideOfInt(255)))
      [] typeEnum = GL_SHORT -> Ok(MaxMinusOne(val, WideOfInt(32767)))
      [] typeEnum = GL_UNSIGNED_SHORT -> Ok(Quot(val, WideOfInt(65535)))
      [] typeEnum = GL_INT -> Ok(MaxMinusOne(val, Wide(32767, 65535)))
      [] typeEnum = GL_UNSIGNED_INT -> Ok(Quot(val, Wide(65535, 65535)))
      [] OTHER -> Ok(Quot(val, WideOne))

----------------------------------------------------------------------------
(* Attribute classifier: the sort of buildStats/buildGltf/buildObj and the *)
(* three find* functions.  An Attribute is a record                        *)
(* [index, size, typeEnum, normalized, stride, offset, bufferId]; an       *)
(* absent normalized is FALSE and an absent stride or offset is 0, which   *)
(* is how the code reads them (a.normalized, attrib.stride && ..., || 0).  *)

RECURSIVE InsertByIndex(_, _)
InsertByIndex(sorted, a) ==
    IF sorted = <<>> THEN <<a>>
    ELSE IF a.index - Head(sorted).index < 0 THEN <<a>> \o sorted
    ELSE <<Head(sorted)>> \o InsertByIndex(Tail(sorted), a)

(* A faulty variant of the sort below: the list is left in trace order.    *)
Unsorted(attribs) == attribs

(* attribs.slice().sort((a, b) => a.index - b.index): a stable sort.       *)
RECURSIVE sortAttribs(_)
sortAttribs(attribs) ==
    IF attribs = <<>> THEN <<>>
    ELSE InsertByIndex(sortAttribs(SubSeq(attribs, 1, Len(attribs) - 1)), attribs[Len(attribs)])

(* Array.prototype.find: the first element whose position is in hits, the  *)
(* positions of the elements that satisfy the test.                        *)
FindFirst(seq, hits) == IF hits = {} THEN <<>> ELSE <<seq[SetMin(hits)]>>

IsPositionLike(a) ==
    a.size = 3 /\ (a.typeEnum = GL_FLOAT \/ (a.typeEnum = GL_UNSIGNED_SHORT /\ ~a.normalized))

IsNormalLike(a) ==
    a.size = 3 /\ a.normalized /\ (a.typeEnum = GL_BYTE \/ a.typeEnum = GL_SHORT)

IsUvLike(a) ==
    a.size = 2 /\ a.normalized /\ (a.typeEnum = GL_UNSIGNED_BYTE \/ a.typeEnum = GL_UNSIGNED_SHORT)

(* A faulty variant of findPositionAttrib: the size is not tested.         *)
findPositionAttribAnySize(attribs) ==
    FindFirst(attribs, {i \in 1 .. Len(attribs) :
                           \/ attribs[i].typeEnum = GL_FLOAT
                           \/ (attribs[i].typeEnum = GL_UNSIGNED_SHORT /\ ~attribs[i].normalized)})

findPositionAttrib(attribs) ==
    FindFirst(attribs, {i \in 1 .. Len(attribs) : IsPositionLike(attribs[i])})

findNormalAttrib(attribs) ==
    FindFirst(attribs, {i \in 1 .. Len(attribs) : IsNormalLike(attribs[i])})

findUvAttrib(attribs) ==
    FindFirst(attribs, {i \in 1 .. Len(attribs) : IsUvLike(attribs[i])})

(* A faulty variant of getStride: the stride of the attribute is ignored.  *)
getStrideTight(attrib) ==
    LET bpc == bytesPerComponent(attrib.typeEnum)
    IN  IF bpc.ok THEN Ok(attrib.size * bpc.val) ELSE bpc

getStride(attrib) ==
    IF attrib.stride # 0 THEN Ok(attrib.stride)
    ELSE LET bpc == bytesPerComponent(attrib.typeEnum)
         IN  IF bpc.ok THEN Ok(attrib.size * bpc.val) ELSE bpc

----------------------------------------------------------------------------
(* Draw-call selector.  A CaptureJson is [buffers, contexts], both         *)
(* optional sequences; a context is [draws], optional; a DrawCall is       *)
(* [kind, mode, count, indexTypeEnum, indexOffset, elementArrayBufferId,   *)
(* attribs].  count is [t, v]: t = "num" is the finite number v,           *)
(* t = "inf" is Infinity (JSON.parse("1e999")), t = "str" is a value that  *)
(* is not of type number.  attribs is optional: <<>> is "not an array".    *)

OrEmpty(opt) == IF IsSome(opt) THEN opt[1] ELSE <<>>

(* x || 0 *)
OrEmptyNum(opt) == IF IsSome(opt) THEN opt[1] ELSE 0

TypeofNumber(count) == count.t \in {"num", "inf"}

(* a > b on numbers.                                                       *)
NumGt(a, b) ==
    IF a.t = "inf" THEN b.t # "inf"
    ELSE IF b.t = "inf" THEN FALSE
    ELSE a.v > b.v

(* new Map filled by buffersById.set(buffer.id, buffer) in order: a later   *)
(* entry with the same id replaces an earlier one.                         *)
BuffersById(json) ==
    LET bufs == OrEmpty(json.buffers)
        ids == {bufs[i].id : i \in 1 .. Len(bufs)}
    IN  [id \in ids |-> bufs[CHOOSE i \in 1 .. Len(bufs) :
                                /\ bufs[i].id = id
                                /\ \A j \in (i + 1) .. Len(bufs) : bufs[j].id # id]]

MapGet(map, key) == IF key \in DOMAIN map THEN <<map[key]>> ELSE <<>>

(* The five "continue" tests of the inner loop.                            *)
PassesFilters(draw) ==
    /\ draw.kind = "drawElements"
    /\ draw.mode = 4
    /\ TypeofNumber(draw.count)
    /\ IsSome(draw.attribs) /\ Len(draw.attribs[1]) # 0
    /\ IsSome(draw.elementArrayBufferId) /\ draw.elementArrayBufferId[1] # 0

(* A faulty variant of the comparison below: ">=" in place of ">", which   *)
(* keeps the last of several draws of equal count.                         *)
BetterOrEqual(draw, best) == best = <<>> \/ ~NumGt(best[1].count, draw.count)

(* !best || draw.count > best.count *)
BetterThan(draw, best) == best = <<>> \/ NumGt(draw.count, best[1].count)

RECURSIVE PickInDraws(_, _)
PickInDraws(draws, best) ==
    IF draws = <<>> THEN best
    ELSE LET draw == Head(draws)
         IN  PickInDraws(Tail(draws),
                         IF PassesFilters(draw) /\ BetterThan(draw, best) THEN <<draw>> ELSE best)

RECURSIVE PickInContexts(_, _)
PickInContexts(contexts, best) ==
    IF contexts = <<>> THEN best
    ELSE PickInContexts(Tail(contexts), PickInDraws(OrEmpty(Head(contexts).draws), best))

(* A context of the trace that is null ("contexts": [null]) is the record  *)
(* NullContext; reading its draws throws a TypeError.                      *)
NullContext == [draws |-> <<>>, null |-> TRUE]

NullContextError == "TypeError: Cannot read properties of null (reading 'draws')"

(* Whether pickMainDrawCall throws: "for (const draw of ctx.draws || [])"  *)
(* on a null ctx.                                                          *)
pickMainDrawCallThrows(json) ==
    \E i \in 1 .. Len(OrEmpty(json.contexts)) : "null" \in DOMAIN OrEmpty(json.contexts)[i]

(* Returns <<>> for null, else <<[draw, buffersById]>>.                    *)
pickMainDrawCall(json) ==
    LET best == PickInContexts(OrEmpty(json.contexts), <<>>)
    IN  IF best = <<>> THEN <<>>
        ELSE <<[draw |-> best[1], buffersById |-> BuffersById(json)]>>

----------------------------------------------------------------------------
(* Summary builder.                                                        *)

buildStats(sel) ==
    LET draw == sel.draw
        attribs == sortAttribs(OrEmpty(draw.attribs))
        pos == findPositionAttrib(attribs)
        nrm == findNormalAttrib(attribs)
        uv == findUvAttrib(attribs)
        posBuf == IF IsSome(pos) THEN MapGet(sel.buffersById, pos[1].bufferId) ELSE <<>>
        idxBuf == IF IsSome(draw.elementArrayBufferId) /\ draw.elementArrayBufferId[1] # 0
                  THEN MapGet(sel.buffersById, draw.elementArrayBufferId[1]) ELSE <<>>
    IN  [chosenDraw |-> [kind |-> draw.kind, mode |-> draw.mode, count |-> draw.count,
                         indexTypeEnum |-> draw.indexTypeEnum, indexOffset |-> draw.indexOffset,
                         elementArrayBufferId |-> draw.elementArrayBufferId],
         guessedSemantics |->
             [positionAttribIndex |-> IF IsSome(pos) THEN <<pos[1].index>> ELSE <<>>,
              normalAttribIndex |-> IF IsSome(nrm) THEN <<nrm[1].index>> ELSE <<>>,
              uvAttribIndex |-> IF IsSome(uv) THEN <<uv[1].index>> ELSE <<>>],
         buffers |->
             [position |-> IF IsSome(posBuf)
                           THEN <<[id |-> posBuf[1].id, binOffset |-> posBuf[1].binOffset,
                                   byteLength |-> posBuf[1].byteLength, stride |-> pos[1].stride,
                                   offset |-> pos[1].offset, typeEnum |-> pos[1].typeEnum,
                                   normalized |-> pos[1].normalized]>>
                           ELSE <<>>,
              index |-> idxBuf]]

----------------------------------------------------------------------------
(* Vertex decoder and encoders: buildGltf and buildObj.                    *)
(*                                                                         *)
(* A build returns [ok, err, stage, reads, out]: ok = FALSE means it threw *)
(* err while in stage; reads holds, per channel, the byte addresses of     *)
(* captureBin that readScalar had read by then; out is <<>> when it threw  *)
(* and <<the returned value>> otherwise.                                   *)

NoReads == [indices |-> {}, positions |-> {}, normals |-> {}, uvs |-> {}]

Failed(err, stage, reads) == [ok |-> FALSE, err |-> err, stage |-> stage, reads |-> reads, out |-> <<>>]

Built(reads, out) == [ok |-> TRUE, err |-> "", stage |-> "done", reads |-> reads, out |-> <<out>>]

InvalidTypedArrayLength == "RangeError: Invalid typed array length"

InvalidArrayLength == "RangeError: Invalid array length"

(* new Uint32Array(n) / new Array(n) accept n when it is a finite number   *)
(* that is an integer >= 0.                                                *)
ValidLength(count) == count.t = "num" /\ count.v >= 0

Num(v) == [t |-> "num", v |-> v]

(* A loop "for i in [0, count): read ncomp scalars at                       *)
(* start + i * stride + c * bpc": the reads made until the first one that  *)
(* throws, and that error.                                                 *)
ReadAt(dv, byteOffset, typeEnum) == [at |-> byteOffset, r |-> readScalar(dv, byteOffset, typeEnum)]

(* rs[k] is read k of the loop (from 0); the loop ends at the first read   *)
(* that throws.                                                            *)
LoopOutcome(rs, bpc) ==
    LET bad == {k \in DOMAIN rs : ~rs[k].r.ok}
        done == IF bad = {} THEN Cardinality(DOMAIN rs) ELSE SetMin(bad)
    IN  [ok |-> bad = {},
         err |-> IF bad = {} THEN "" ELSE rs[done].r.err,
         reads |-> UNION {RangeSet(rs[k].at, bpc) : k \in 0 .. (done - 1)},
         vals |-> [k \in 1 .. done |-> rs[k - 1].r.val]]

ScalarLoop(dv, start, stride, bpc, ncomp, count, typeEnum) ==
    LoopOutcome([k \in 0 .. (count * ncomp - 1) |->
                    ReadAt(dv, start + (k \div ncomp) * stride + (k % ncomp) * bpc, typeEnum)],
                bpc)

(* Math.floor((buf.byteLength - offset) / stride), stride > 0.             *)
FitCount(buf, offset, stride) == (buf.byteLength - offset) \div stride

ChannelAbsent == [ok |-> TRUE, err |-> "", present |-> FALSE, count |-> 0, reads |-> {}, vals |-> <<>>]

(* A channel whose loop was run: its count and what the loop did.          *)
ChannelDecoded(count, loop) ==
    [ok |-> loop.ok, err |-> loop.err, present |-> TRUE, count |-> count, reads |-> loop.reads,
     vals |-> loop.vals]

(* The "if (nrmA) { ... if (nrmBuf) { ... } }" block, the same for UVs:    *)
(* lengthErr is the error of the array constructor given a negative count; *)
(* hoisted tells that bytesPerComponent is called once before the loop     *)
(* (buildGltf) and not inside it (buildObj).                               *)
OptionalChannel(dv, buffersById, attrOpt, ncomp, vertexCount, lengthErr, hoisted) ==
    IF attrOpt = <<>> THEN ChannelAbsent
    ELSE LET a == attrOpt[1]
             bufOpt == MapGet(buffersById, a.bufferId)
         IN  IF bufOpt = <<>> THEN ChannelAbsent
             ELSE LET buf == bufOpt[1]
                      stride == getStride(a)
                      count == Min2(vertexCount, FitCount(buf, a.offset, stride.val))
                      bpc == bytesPerComponent(a.typeEnum)
                  IN  IF ~stride.ok THEN [ChannelAbsent EXCEPT !.ok = FALSE, !.err = stride.err]
                      ELSE IF count < 0 THEN [ChannelAbsent EXCEPT !.ok = FALSE, !.err = lengthErr]
                      ELSE IF ~bpc.ok /\ (hoisted \/ count > 0)
                      THEN [ChannelAbsent EXCEPT !.ok = FALSE, !.err = bpc.err]
                      ELSE ChannelDecoded(count,
                                          ScalarLoop(dv, buf.binOffset + a.offset, stride.val,
                                                     bpc.val, ncomp, count, a.typeEnum))

(* Numbers of the decoders.  The value of a float read from the raw buffer *)
(* is taken as an integer: the floats of the raw buffers used here are     *)
(* integers below 2^24 in size, which is what FloatValue decodes (sign,    *)
(* 8-bit exponent, 23-bit fraction).  The numbers computed from them by    *)
(* scale and bias are integers too, and exact in a double.                 *)
FloatValue(f) ==
    LET sign == f.hi \div 32768
        exp == (f.hi % 32768) \div 128
        frac == 8388608 + (f.hi % 128) * Half + f.lo
        shift == 150 - exp
    IN  CASE exp = 0 /\ frac = 8388608 -> 0
          [] exp >= 127 /\ exp <= 150 /\ frac % Pow2(shift) = 0 ->
               (IF sign = 1 THEN 0 - 1 ELSE 1) * (frac \div Pow2(shift))

(* The number that readScalar returned, for the types of a position.       *)
RawNumber(v) == IF v.k = "f32" THEN FloatValue(v) ELSE v.hi * Half + v.lo

(* "if (posA.normalized) x = normalizeInt(x, posA.typeEnum)": a position   *)
(* that is flagged normalized is a float, which normalizeInt returns as it *)
(* is (a quotient by one).                                                 *)
PositionNumber(raw, posA) ==
    IF posA.normalized
    THEN LET q == normalizeInt(raw, posA.typeEnum).val
         IN  CASE q.den = WideOne -> RawNumber(q.num)
    ELSE RawNumber(raw)

(* x = x * scale + biasX, and so on for y and z.                           *)
ScaleAndBias(v, options) ==
    <<v[1] * options.scale + options.biasX,
      v[2] * options.scale + options.biasY,
      v[3] * options.scale + options.biasZ>>

(* A faulty variant of the two statements below: z is negated before the   *)
(* exchange.                                                               *)
InvertThenSwap(v, options) ==
    LET inverted == IF options.invertZ THEN <<v[1], v[2], 0 - v[3]>> ELSE v
    IN  IF options.swapYZ THEN <<inverted[1], inverted[3], inverted[2]>> ELSE inverted

(* if (swapYZ) [y, z] = [z, y]; if (invertZ) z = -z                        *)
SwapThenInvert(v, options) ==
    LET swapped == IF options.swapYZ THEN <<v[1], v[3], v[2]>> ELSE v
    IN  IF options.invertZ THEN <<swapped[1], swapped[2], 0 - swapped[3]>> ELSE swapped

(* The body of the position loop after its three reads, for vertex i       *)
(* (from 1) of the raw values vals.                                        *)
DecodeVertex(vals, i, posA, options) ==
    SwapThenInvert(ScaleAndBias(<<PositionNumber(vals[3 * i - 2], posA),
                                  PositionNumber(vals[3 * i - 1], posA),
                                  PositionNumber(vals[3 * i], posA)>>, options),
                   options)

DecodeVertices(vals, posA, options) ==
    [i \in 1 .. (Len(vals) \div 3) |-> DecodeVertex(vals, i, posA, options)]

(* The spacing of the floats around a >= 2^24: the least power of two u    *)
(* with a < 2^24 * u.                                                      *)
RECURSIVE FloatSpacing(_, _)
FloatSpacing(a, u) == IF a \div u < 16777216 THEN u ELSE FloatSpacing(a, 2 * u)

(* A store into a Float32Array: the nearest float, ties to the even one.   *)
Fround(n) ==
    LET a == IF n < 0 THEN 0 - n ELSE n
        u == FloatSpacing(a, 1)
        q == a \div u
        r == a % u
        up == 2 * r > u \/ (2 * r = u /\ q % 2 = 1)
        rounded == (IF up THEN q + 1 ELSE q) * u
    IN  IF n < 0 THEN 0 - rounded ELSE rounded

StoreFloat32(vertices) ==
    [i \in 1 .. Len(vertices) |->
        <<Fround(vertices[i][1]), Fround(vertices[i][2]), Fround(vertices[i][3])>>]

(* A store into a Uint32Array: the number modulo 2^32.                     *)
ToUint32(v) ==
    LET w == IF v.k = "f32" THEN WideOfInt(FloatValue(v)) ELSE v
    IN  IF w.hi < 0 THEN Wide(w.hi + Half, w.lo) ELSE w

StoreUint32(vals) == [i \in 1 .. Len(vals) |-> ToUint32(vals[i])]

Infinity == [t |-> "inf", v |-> 0]

MinusInfinity == [t |-> "ninf", v |-> 0]

(* Math.min(m, x) and Math.max(m, x) for a running m that starts at        *)
(* Infinity or -Infinity.                                                  *)
MathMin(m, x) ==
    IF m.t = "inf" THEN [t |-> "num", v |-> x]
    ELSE IF m.t = "ninf" THEN m
    ELSE [t |-> "num", v |-> IF x < m.v THEN x ELSE m.v]

MathMax(m, x) ==
    IF m.t = "ninf" THEN [t |-> "num", v |-> x]
    ELSE IF m.t = "inf" THEN m
    ELSE [t |-> "num", v |-> IF x > m.v THEN x ELSE m.v]

(* minX .. maxZ after the position loop: axis c of the computed vertices.  *)
RECURSIVE RunningMin(_, _, _)
RunningMin(m, vertices, c) ==
    IF vertices = <<>> THEN m
    ELSE RunningMin(MathMin(m, Head(vertices)[c]), Tail(vertices), c)

RECURSIVE RunningMax(_, _, _)
RunningMax(m, vertices, c) ==
    IF vertices = <<>> THEN m
    ELSE RunningMax(MathMax(m, Head(vertices)[c]), Tail(vertices), c)

(* A faulty variant of maxOfU32: the maximum of all but the last index.    *)
RECURSIVE maxOfU32ButLast(_, _)
maxOfU32ButLast(m, u32) ==
    IF Len(u32) <= 1 THEN m
    ELSE maxOfU32ButLast(IF WideLt(m, Head(u32)) THEN Head(u32) ELSE m, Tail(u32))

(* maxOfU32, with m the maximum so far ("let m = 0" at the start).         *)
RECURSIVE maxOfU32(_, _)
maxOfU32(m, u32) ==
    IF u32 = <<>> THEN m
    ELSE maxOfU32(IF WideLt(m, Head(u32)) THEN Head(u32) ELSE m, Tail(u32))

(* pushChunk: st is [views, byteOffset, chunks]; chunks lists the byte     *)
(* lengths of the pieces pushed (padding pieces included).                 *)
NoChunks == [views |-> <<>>, byteOffset |-> 0, chunks |-> <<>>]

(* A faulty variant of pushChunk: byteOffset is not advanced past the      *)
(* piece pushed.                                                           *)
pushChunkInPlace(st, name, byteLength) ==
    LET pad == (4 - (st.byteOffset % 4)) % 4
        at == st.byteOffset + pad
    IN  [views |-> Append(st.views, [name |-> name, byteOffset |-> at, byteLength |-> byteLength]),
         byteOffset |-> at,
         chunks |-> st.chunks \o (IF pad # 0 THEN <<pad>> ELSE <<>>) \o <<byteLength>>]

pushChunk(st, name, byteLength) ==
    LET align == 4
        pad == (align - (st.byteOffset % align)) % align
        at == st.byteOffset + pad
    IN  [views |-> Append(st.views, [name |-> name, byteOffset |-> at, byteLength |-> byteLength]),
         byteOffset |-> at + byteLength,
         chunks |-> st.chunks \o (IF pad # 0 THEN <<pad>> ELSE <<>>) \o <<byteLength>>]

ViewOf(st, name) == st.views[CHOOSE i \in 1 .. Len(st.views) : st.views[i].name = name]

RECURSIVE SumSeq(_)
SumSeq(seq) == IF seq = <<>> THEN 0 ELSE Head(seq) + SumSeq(Tail(seq))

(* concatU8(chunks).byteLength *)
concatU8Length(chunks) == SumSeq(chunks)

ARRAY_BUFFER == 34962

ELEMENT_ARRAY_BUFFER == 34963

(* A faulty variant of addBufferView: every view is the one of positions.  *)
addBufferViewOfPositions(st, name, target) ==
    [buffer |-> 0, byteOffset |-> ViewOf(st, "positions").byteOffset,
     byteLength |-> ViewOf(st, "positions").byteLength, target |-> target]

addBufferView(st, name, target) ==
    [buffer |-> 0, byteOffset |-> ViewOf(st, name).byteOffset,
     byteLength |-> ViewOf(st, name).byteLength, target |-> target]

(* min and max are optional: "if (args.min) accessor.min = args.min".      *)
addAccessor(bufferView, componentType, count, type, min, max) ==
    [bufferView |-> bufferView, componentType |-> componentType, count |-> count, type |-> type,
     min |-> min, max |-> max]

(* Lines 266-402: packing and the scene description.  Indices into         *)
(* bufferViews and accessors are the 0-based indices of the code.  indices *)
(* is the Uint32Array of the index loop and vertices the (x, y, z) that    *)
(* the position loop computed, which it stores into a Float32Array.  The   *)
(* min and max of the normal and UV accessors are left out.                *)
GltfAsset(indices, vertices, nrm, uv) ==
    LET indexCount == Len(indices)
        vertexCount == Len(vertices)
        st1 == pushChunk(NoChunks, "indices", 4 * indexCount)
        st2 == pushChunk(st1, "positions", 4 * (vertexCount * 3))
        st3 == IF nrm.present THEN pushChunk(st2, "normals", 4 * (nrm.count * 3)) ELSE st2
        st4 == IF uv.present THEN pushChunk(st3, "uvs", 4 * (uv.count * 2)) ELSE st3
        binLength == concatU8Length(st4.chunks)
        bvIndices == 0
        bvPositions == 1
        bvNormals == IF nrm.present THEN <<2>> ELSE <<>>
        bvUVs == IF uv.present THEN <<IF nrm.present THEN 3 ELSE 2>> ELSE <<>>
        bufferViews ==
            <<addBufferView(st4, "indices", ELEMENT_ARRAY_BUFFER),
              addBufferView(st4, "positions", ARRAY_BUFFER)>>
            \o (IF nrm.present THEN <<addBufferView(st4, "normals", ARRAY_BUFFER)>> ELSE <<>>)
            \o (IF uv.present THEN <<addBufferView(st4, "uvs", ARRAY_BUFFER)>> ELSE <<>>)
        accIndices == 0
        accPos == 1
        accNrm == IF nrm.present THEN <<2>> ELSE <<>>
        accUV == IF uv.present THEN <<IF nrm.present THEN 3 ELSE 2>> ELSE <<>>
        accessors ==
            <<addAccessor(bvIndices, GL_UNSIGNED_INT, indexCount, "SCALAR",
                          <<(<<WideZero>>)>>, <<(<<maxOfU32(WideZero, indices)>>)>>),
              addAccessor(bvPositions, GL_FLOAT, vertexCount, "VEC3",
                          <<[c \in 1 .. 3 |-> RunningMin(Infinity, vertices, c)]>>,
                          <<[c \in 1 .. 3 |-> RunningMax(MinusInfinity, vertices, c)]>>)>>
            \o (IF nrm.present
                THEN <<addAccessor(bvNormals[1], GL_FLOAT, (nrm.count * 3) \div 3, "VEC3",
                                   <<>>, <<>>)>>
                ELSE <<>>)
            \o (IF uv.present
                THEN <<addAccessor(bvUVs[1], GL_FLOAT, (uv.count * 2) \div 2, "VEC2",
                                   <<>>, <<>>)>>
                ELSE <<>>)
    IN  [gltfJsonObj |->
             [primitive |-> [attributes |-> [POSITION |-> <<accPos>>, NORMAL |-> accNrm,
                                             TEXCOORD_0 |-> accUV],
                             indices |-> accIndices, mode |-> 4],
              buffers |-> <<[uri |-> <<"mesh_<stamp>.bin">>, byteLength |-> binLength]>>,
              bufferViews |-> bufferViews,
              accessors |-> accessors],
         binU8 |-> [byteLength |-> binLength, views |-> st4.views, chunks |-> st4.chunks],
         decoded |-> [indexCount |-> indexCount, vertexCount |-> vertexCount,
                      normals |-> IF nrm.present THEN <<nrm.count>> ELSE <<>>,
                      uvs |-> IF uv.present THEN <<uv.count>> ELSE <<>>,
                      indices |-> indices, positions |-> StoreFloat32(vertices)]]

(* Lines 160-403: what buildGltf does with the outcomes of its four loops, *)
(* in the order of the code; a loop is run only if those before it ended.  *)
GltfOutcome(vertexCount, posCompBytes, idx, pos, nrm, uv, posA, options) ==
    IF ~idx.ok THEN Failed(idx.err, "indices", [NoReads EXCEPT !.indices = idx.reads])
    ELSE IF vertexCount < 0
    THEN Failed(InvalidTypedArrayLength, "positions", [NoReads EXCEPT !.indices = idx.reads])
    ELSE IF ~posCompBytes.ok
    THEN Failed(posCompBytes.err, "positions", [NoReads EXCEPT !.indices = idx.reads])
    ELSE IF ~pos.ok
    THEN Failed(pos.err, "positions",
                [NoReads EXCEPT !.indices = idx.reads, !.positions = pos.reads])
    ELSE IF ~nrm.ok
    THEN Failed(nrm.err, "normals",
                [indices |-> idx.reads, positions |-> pos.reads, normals |-> nrm.reads, uvs |-> {}])
    ELSE IF ~uv.ok
    THEN Failed(uv.err, "uvs",
                [indices |-> idx.reads, positions |-> pos.reads, normals |-> nrm.reads,
                 uvs |-> uv.reads])
    ELSE Built([indices |-> idx.reads, positions |-> pos.reads, normals |-> nrm.reads,
                uvs |-> uv.reads],
               GltfAsset(StoreUint32(idx.vals), DecodeVertices(pos.vals, posA, options), nrm, uv))

(* Lines 144-403, entered once posA, posBuf and idxBuf are known.          *)
GltfDecode(dv, draw, buffersById, posA, nrmA, uvA, posBuf, idxBuf, options) ==
    LET posStride == getStride(posA)
        posOffset == posA.offset
        vertexCount == FitCount(posBuf, posOffset, posStride.val)
        idxType == draw.indexTypeEnum
        idxBpc == bytesPerComponent(idxType)
        idxStart == idxBuf.binOffset + OrEmptyNum(draw.indexOffset)
        posCompBytes == bytesPerComponent(posA.typeEnum)
    IN  IF ~posStride.ok THEN Failed(posStride.err, "positions", NoReads)
        ELSE IF ~idxBpc.ok THEN Failed(idxBpc.err, "indices", NoReads)
        ELSE IF ~ValidLength(draw.count) THEN Failed(InvalidTypedArrayLength, "indices", NoReads)
        ELSE GltfOutcome(vertexCount, posCompBytes,
                         ScalarLoop(dv, idxStart, idxBpc.val, idxBpc.val, 1, draw.count.v, idxType),
                         ScalarLoop(dv, posBuf.binOffset + posOffset, posStride.val,
                                    posCompBytes.val, 3, vertexCount, posA.typeEnum),
                         OptionalChannel(dv, buffersById, nrmA, 3, vertexCount,
                                         InvalidTypedArrayLength, TRUE),
                         OptionalChannel(dv, buffersById, uvA, 2, vertexCount,
                                         InvalidTypedArrayLength, TRUE),
                         posA, options)

MissingPositionAttribute == "Could not find a POSITION-like attribute (size=3)."

MissingPositionBuffer == "Missing position buffer entry in JSON."

MissingIndexBuffer == "Missing index buffer entry in JSON."

(* A faulty variant of the lookup below: an id that is not in the map      *)
(* yields an empty descriptor at the start of the raw buffer.              *)
IndexBufferOrEmpty(draw, buffersById) ==
    IF IsSome(draw.elementArrayBufferId) /\ draw.elementArrayBufferId[1] \in DOMAIN buffersById
    THEN MapGet(buffersById, draw.elementArrayBufferId[1])
    ELSE <<[id |-> 0, binOffset |-> 0, byteLength |-> 0]>>

(* draw.elementArrayBufferId ? buffersById.get(draw.elementArrayBufferId) : null *)
IndexBufferOf(draw, buffersById) ==
    IF IsSome(draw.elementArrayBufferId) /\ draw.elementArrayBufferId[1] # 0
    THEN MapGet(buffersById, draw.elementArrayBufferId[1])
    ELSE <<>>

buildGltf(bin, sel, options) ==
    LET draw == sel.draw
        buffersById == sel.buffersById
        attribs == sortAttribs(OrEmpty(draw.attribs))
        posA == findPositionAttrib(attribs)
        nrmA == findNormalAttrib(attribs)
        uvA == findUvAttrib(attribs)
        posBuf == MapGet(buffersById, posA[1].bufferId)
        idxBuf == IndexBufferOf(draw, buffersById)
    IN  IF posA = <<>> THEN Failed(MissingPositionAttribute, "classify", NoReads)
        ELSE IF posBuf = <<>> THEN Failed(MissingPositionBuffer, "lookup", NoReads)
        ELSE IF idxBuf = <<>> THEN Failed(MissingIndexBuffer, "lookup", NoReads)
        ELSE GltfDecode(bin, draw, buffersById, posA[1], nrmA, uvA, posBuf[1], idxBuf[1], options)

(* The face loop "for (i = 0; i < indices.length; i += 3)" runs once per   *)
(* started group of three indices.                                         *)
FaceLines(indexCount) == (indexCount + 2) \div 3

NaN == [t |-> "nan", v |-> 0]

(* The token A of a face line for position k (from 0) of indices:          *)
(* a = indices[k] + 1, A = Math.max(1, Math.min(a, vertices.length)).      *)
(* Past the end of the array indices[k] is undefined, a is NaN and so is   *)
(* A, which is written as the text NaN.                                    *)
FaceToken(indices, k, vertexCount) ==
    IF k >= Len(indices) THEN NaN
    ELSE LET v == indices[k + 1]
             w == IF v.k = "f32" THEN WideOfInt(FloatValue(v)) ELSE v
             a == IF w.lo = Half - 1 THEN Wide(w.hi + 1, 0) ELSE Wide(w.hi, w.lo + 1)
             least == IF WideLt(WideOfInt(vertexCount), a) THEN vertexCount ELSE a.hi * Half + a.lo
         IN  [t |-> "num", v |-> IF least < 1 THEN 1 ELSE least]

(* One corner of a face line: "A/A/A" with UVs and normals, "A/A" with UVs *)
(* only, "A//A" with normals only, "A" with neither; the token A is        *)
(* written in every field.                                                 *)
FaceCorner(A, haveVT, haveVN) ==
    [v |-> A, vt |-> IF haveVT THEN <<A>> ELSE <<>>, vn |-> IF haveVN THEN <<A>> ELSE <<>>]

(* Lines 509-543: the text written, by line counts, face format and the    *)
(* three tokens of every face line; indices and vertices are the arrays of *)
(* the index loop and of the position loop.                                *)
ObjText(indices, vertices, nrm, uv) ==
    LET indexCount == Len(indices)
        vertexCount == Len(vertices)
    IN
    [headerVertices |-> vertexCount,
     headerIndices |-> indexCount,
     headerTriangles |-> indexCount \div 3,
     vLines |-> vertexCount,
     vtLines |-> IF uv.present THEN uv.count ELSE 0,
     vnLines |-> IF nrm.present THEN nrm.count ELSE 0,
     fLines |-> FaceLines(indexCount),
     faces |-> [f \in 1 .. FaceLines(indexCount) |->
                   <<FaceToken(indices, 3 * f - 3, vertexCount),
                     FaceToken(indices, 3 * f - 2, vertexCount),
                     FaceToken(indices, 3 * f - 1, vertexCount)>>],
     corners |-> [f \in 1 .. FaceLines(indexCount) |->
                     [k \in 1 .. 3 |->
                         FaceCorner(FaceToken(indices, 3 * f - 4 + k, vertexCount),
                                    uv.present, nrm.present)]],
     haveVT |-> uv.present,
     haveVN |-> nrm.present,
     decoded |-> [indexCount |-> indexCount, vertexCount |-> vertexCount,
                  normals |-> IF nrm.present THEN <<nrm.count>> ELSE <<>>,
                  uvs |-> IF uv.present THEN <<uv.count>> ELSE <<>>,
                  indices |-> indices, positions |-> vertices]]

(* Lines 427-544: what buildObj does with the outcomes of its four loops,  *)
(* in the order of the code: positions, normals, UVs, then indices.        *)
ObjOutcome(count, pos, nrm, uv, idx, posA, options) ==
    IF ~pos.ok THEN Failed(pos.err, "positions", [NoReads EXCEPT !.positions = pos.reads])
    ELSE IF ~nrm.ok
    THEN Failed(nrm.err, "normals",
                [NoReads EXCEPT !.positions = pos.reads, !.normals = nrm.reads])
    ELSE IF ~uv.ok
    THEN Failed(uv.err, "uvs",
                [indices |-> {}, positions |-> pos.reads, normals |-> nrm.reads, uvs |-> uv.reads])
    ELSE IF ~ValidLength(count)
    THEN Failed(InvalidArrayLength, "indices",
                [indices |-> {}, positions |-> pos.reads, normals |-> nrm.reads, uvs |-> uv.reads])
    ELSE IF ~idx.ok
    THEN Failed(idx.err, "indices",
                [indices |-> idx.reads, positions |-> pos.reads, normals |-> nrm.reads,
                 uvs |-> uv.reads])
    ELSE Built([indices |-> idx.reads, positions |-> pos.reads, normals |-> nrm.reads,
                uvs |-> uv.reads],
               ObjText(idx.vals, DecodeVertices(pos.vals, posA, options), nrm, uv))

(* Lines 422-544, entered once posA, posBuf and idxBuf are known.          *)
ObjDecode(dv, draw, buffersById, posA, nrmA, uvA, posBuf, idxBuf, options) ==
    LET idxType == draw.indexTypeEnum
        idxBpc == bytesPerComponent(idxType)
        idxStart == idxBuf.binOffset + OrEmptyNum(draw.indexOffset)
        posStride == getStride(posA)
        posOffset == posA.offset
        posVertCount == FitCount(posBuf, posOffset, posStride.val)
        posCompBytes == bytesPerComponent(posA.typeEnum)
    IN  IF ~idxBpc.ok THEN Failed(idxBpc.err, "indices", NoReads)
        ELSE IF ~posStride.ok THEN Failed(posStride.err, "positions", NoReads)
        ELSE IF posVertCount < 0 THEN Failed(InvalidArrayLength, "positions", NoReads)
        ELSE IF posVertCount > 0 /\ ~posCompBytes.ok
        THEN Failed(posCompBytes.err, "positions", NoReads)
        ELSE ObjOutcome(draw.count,
                        ScalarLoop(dv, posBuf.binOffset + posOffset, posStride.val,
                                   posCompBytes.val, 3, posVertCount, posA.typeEnum),
                        OptionalChannel(dv, buffersById, nrmA, 3, posVertCount, InvalidArrayLength,
                                        FALSE),
                        OptionalChannel(dv, buffersById, uvA, 2, posVertCount, InvalidArrayLength,
                                        FALSE),
                        ScalarLoop(dv, idxStart, idxBpc.val, idxBpc.val, 1, draw.count.v, idxType),
                        posA, options)

buildObj(bin, sel, options) ==
    LET draw == sel.draw
        buffersById == sel.buffersById
        attribs == sortAttribs(OrEmpty(draw.attribs))
        posA == findPositionAttrib(attribs)
        nrmA == findNormalAttrib(attribs)
        uvA == findUvAttrib(attribs)
        posBuf == MapGet(buffersById, posA[1].bufferId)
        idxBuf == IndexBufferOf(draw, buffersById)
    IN  IF posA = <<>> THEN Failed(MissingPositionAttribute, "classify", NoReads)
        ELSE IF posBuf = <<>> THEN Failed(MissingPositionBuffer, "lookup", NoReads)
        ELSE IF idxBuf = <<>> THEN Failed(MissingIndexBuffer, "lookup", NoReads)
        ELSE ObjDecode(bin, draw, buffersById, posA[1], nrmA, uvA, posBuf[1], idxBuf[1], options)

----------------------------------------------------------------------------
(* The GLB container (utils/glb.ts).                                       *)
(*                                                                         *)
(* Objects live in a heap so that what buildGlb changes is seen: the heap  *)
(* is [objects, buffers], two sequences, and a reference is a position in  *)
(* one of them.  A scene description is [scene, buffers]: scene is an      *)
(* optional number and buffers an optional sequence of references to       *)
(* buffer objects [uri, byteLength], both optional.  A number is Num(n),   *)
(* Infinity or Null; a string and a Uint8Array are sequences of bytes.     *)

Null == [t |-> "null", v |-> 0]

RECURSIVE Digits(_)
Digits(n) == IF n < 10 THEN <<48 + n>> ELSE Digits(n \div 10) \o <<48 + (n % 10)>>

(* JSON.stringify of a number: a number that is not finite is written as   *)
(* null.                                                                   *)
NumberText(x) == IF x.t = "num" THEN Digits(x.v) ELSE <<110, 117, 108, 108>>

RECURSIVE JoinComma(_)
JoinComma(texts) ==
    IF texts = <<>> THEN <<>>
    ELSE IF Len(texts) = 1 THEN texts[1]
    ELSE texts[1] \o <<44>> \o JoinComma(Tail(texts))

(* JSON.stringify of a buffer object: the members present, in the order    *)
(* uri, byteLength.                                                        *)
BufferText(b) ==
    <<123>>
    \o JoinComma((IF b.uri = <<>> THEN <<>> ELSE <<<<34, 117, 114, 105, 34, 58>> \o <<34>> \o b.uri[1] \o <<34>>>>)
                 \o (IF b.byteLength = <<>> THEN <<>>
                     ELSE <<<<34, 98, 121, 116, 101, 76, 101, 110, 103, 116, 104, 34, 58>> \o NumberText(b.byteLength[1])>>))
    \o <<125>>

(* JSON.stringify(gltf) followed by TextEncoder.encode: the text is ASCII, *)
(* one byte per character.                                                 *)
JsonStringify(heap, ref) ==
    LET obj == heap.objects[ref]
    IN  <<123>>
        \o JoinComma((IF obj.scene = <<>> THEN <<>> ELSE <<<<34, 115, 99, 101, 110, 101, 34, 58>> \o NumberText(obj.scene[1])>>)
                     \o (IF obj.buffers = <<>> THEN <<>>
                         ELSE <<<<34, 98, 117, 102, 102, 101, 114, 115, 34, 58>> \o <<91>>
                                \o JoinComma([k \in 1 .. Len(obj.buffers[1]) |->
                                                 BufferText(heap.buffers[obj.buffers[1][k]])])
                                \o <<93>>>>))
        \o <<125>>

(* What JSON.parse gives back for a number that JSON.stringify wrote.      *)
ParsedNumber(x) == IF x.t = "num" THEN x ELSE Null

(* A faulty variant of cloneGltf: a new object that shares the buffer      *)
(* objects of the original.                                                *)
cloneShallow(heap, ref) ==
    [heap |-> [heap EXCEPT !.objects = Append(@, heap.objects[ref])],
     ref |-> Len(heap.objects) + 1]

(* cloneGltf: JSON.parse(JSON.stringify(obj)) builds new objects all the   *)
(* way down.  Returns the heap with them and the reference of the copy.    *)
cloneGltf(heap, ref) ==
    LET obj == heap.objects[ref]
        old == IF obj.buffers = <<>> THEN <<>> ELSE obj.buffers[1]
        copies == [k \in 1 .. Len(old) |->
                      [uri |-> heap.buffers[old[k]].uri,
                       byteLength |-> [j \in 1 .. Len(heap.buffers[old[k]].byteLength) |->
                                          ParsedNumber(heap.buffers[old[k]].byteLength[j])]]]
        copy == [scene |-> [j \in 1 .. Len(obj.scene) |-> ParsedNumber(obj.scene[j])],
                 buffers |-> IF obj.buffers = <<>> THEN <<>>
                             ELSE <<[k \in 1 .. Len(old) |-> Len(heap.buffers) + k]>>]
    IN  [heap |-> [objects |-> Append(heap.objects, copy), buffers |-> heap.buffers \o copies],
         ref |-> Len(heap.objects) + 1]

(* A faulty variant of padTo4: nothing is appended.                        *)
padNone(bytes, padByte) == bytes

(* A faulty variant of padTo4: four bytes are appended to a length that is *)
(* a multiple of 4 already.                                                *)
padAlways(bytes, padByte) == bytes \o [k \in 1 .. (4 - (Len(bytes) % 4)) |-> padByte]

padTo4(bytes, padByte) ==
    LET pad == (4 - (Len(bytes) % 4)) % 4
    IN  IF pad = 0 THEN bytes ELSE bytes \o [k \in 1 .. pad |-> padByte]

(* view.setUint32(offset, w, true): the four bytes of w, least first.      *)
Uint32Bytes(w) == <<w.lo % 256, w.lo \div 256, w.hi % 256, w.hi \div 256>>

(* Lines 4-11: the copy with buffers[0].uri deleted and                    *)
(* buffers[0].byteLength set, when buffers is an array with a first entry. *)
StripUri(cloned, byteLength) ==
    LET gltf == cloned.heap.objects[cloned.ref]
    IN  IF gltf.buffers = <<>> \/ gltf.buffers[1] = <<>> THEN cloned.heap
        ELSE [cloned.heap EXCEPT !.buffers[gltf.buffers[1][1]] =
                 [uri |-> <<>>, byteLength |-> <<Num(byteLength)>>]]

(* Lines 13-43.  The Uint8Array of totalLength bytes is zero where nothing *)
(* was written; a write past its end throws a RangeError.                  *)
GlbBytes(jsonPadded, binPadded) ==
    LET totalLength == 12 + 8 + Len(jsonPadded) + 8 + Len(binPadded)
        written == Uint32Bytes(Wide(18004, 27751)) \o Uint32Bytes(WideOfInt(2))
                   \o Uint32Bytes(WideOfInt(totalLength))
                   \o Uint32Bytes(WideOfInt(Len(jsonPadded))) \o Uint32Bytes(Wide(20047, 21322))
                   \o jsonPadded
                   \o Uint32Bytes(WideOfInt(Len(binPadded))) \o Uint32Bytes(Wide(78, 18754))
                   \o binPadded
    IN  IF Len(written) > totalLength THEN Throw("RangeError: offset is out of bounds")
        ELSE Ok([k \in 1 .. totalLength |-> IF k <= Len(written) THEN written[k] ELSE 0])

(* buildGlb(built) run on a heap: [glb, heap], the returned array (or the  *)
(* error thrown) and the heap after the call.                              *)
buildGlb(heap, built) ==
    LET after == StripUri(cloneGltf(heap, built.gltfJsonObj), Len(built.binU8))
    IN  [glb |-> GlbBytes(padTo4(JsonStringify(after, Len(after.objects)), 32),
                          padTo4(built.binU8, 0)),
         heap |-> after]

----------------------------------------------------------------------------
(* The worker (workers/gltfWorker.ts).  A message to the worker is         *)
(* [type, json, bin, options] (json and bin optional: rebuild and download *)
(* carry none; a load comes from a page other than the App, which posts    *)
(* store and download only).  A message from the worker is                              *)
(* [type, purpose, message, stats, glb, previewSkipped, transfer]; glb is  *)
(* optional and holds the built asset that buildGlb packs; transfer is the *)
(* transfer list of the post, by buffer identity.  The outbox holds what   *)
(* reaches the page, oldest first: the messages posted and, for a handler  *)
(* that ends with an uncaught exception, the error event.                  *)

MAX_PREVIEW_BYTES == 200 * 1024 * 1024

NoSuitableDraw == "Could not find a suitable drawElements TRIANGLES call in JSON."

MissingCapture == "Missing capture data in worker. Please reload the files."

ErrorMessage(message) ==
    [type |-> "error", purpose |-> "", message |-> message, stats |-> <<>>, glb |-> <<>>,
     previewSkipped |-> FALSE, transfer |-> <<>>]

ResultMessage(purpose, stats, glb, previewSkipped) ==
    [type |-> "result", purpose |-> purpose, message |-> "", stats |-> <<stats>>, glb |-> glb,
     previewSkipped |-> previewSkipped, transfer |-> <<>>]

(* The error event an uncaught exception of onmessage raises on the Worker *)
(* object of the page; nothing is posted.                                  *)
ErrorEvent(message) == [ErrorMessage(message) EXCEPT !.type = "errorevent"]

(* Buffers.  An ArrayBuffer has an identity, and a post with a transfer    *)
(* list moves it to the receiving side: mem.owner[id] is the side that can *)
(* read buffer id ("ui", "worker", or "none" once its worker is            *)
(* terminated), and mem.reads records every read of a buffer's bytes,      *)
(* oldest first: who read which buffer, and who owned it then.             *)
NoMem == [owner |-> <<>>, reads |-> <<>>]

Allocate(m, by) == [m EXCEPT !.owner = Append(m.owner, by)]

ReadBy(m, by, id) ==
    [m EXCEPT !.reads = Append(m.reads, [by |-> by, id |-> id, owner |-> m.owner[id]])]

Transfer(m, ids, to) ==
    [m EXCEPT !.owner = [i \in 1 .. Len(m.owner) |-> IF i \in ids THEN to ELSE m.owner[i]]]

(* A faulty variant of the transfer list below: the capture buffer is      *)
(* handed over in place of the buffer of the GLB.                          *)
TransferCapture(glbBuffer, captureBuffer) == <<captureBuffer>>

(* { transfer: [glb.buffer] }                                              *)
TransferList(glbBuffer, captureBuffer) == <<glbBuffer>>

(* What buildPreviewOrSkip and buildAndPost do to the buffers, given the   *)
(* messages they post: a decode reads the capture buffer bin (new          *)
(* DataView(captureBin)); buildGlb returns a new buffer of the worker,     *)
(* which is posted with the transfer list.  [mem, msgs]                    *)
Sent(m, replies, bin) ==
    IF replies = <<>> \/ replies[1].previewSkipped THEN [mem |-> m, msgs |-> replies]
    ELSE LET read == ReadBy(m, "worker", bin.id)
         IN  IF replies[1].glb = <<>> THEN [mem |-> read, msgs |-> replies]
             ELSE LET list == TransferList(Len(m.owner) + 1, bin.id)
                  IN  [mem |-> Transfer(Allocate(read, "worker"),
                                        {list[k] : k \in 1 .. Len(list)}, "ui"),
                       msgs |-> <<[replies[1] EXCEPT !.transfer = list]>>]

(* self.postMessage: the messages leave, the buffers move.                 *)
Reply(sent) == outbox' = outbox \o sent.msgs /\ mem' = sent.mem

Unmoved(m, msgs) == [mem |-> m, msgs |-> msgs]

(* buildAndPost: the messages it posts, given the module-level state.      *)
PostBuilt(built, sel, purpose) ==
    IF built.ok
    THEN <<ResultMessage(purpose, buildStats(sel), built.out, FALSE)>>
    ELSE <<ErrorMessage(built.err)>>

buildAndPost(json, bin, sel, options, purpose) ==
    IF json = <<>> \/ bin = <<>> \/ sel = <<>> THEN <<>>
    ELSE PostBuilt(buildGltf(bin[1], sel[1], options), sel[1], purpose)

(* A faulty variant of buildPreviewOrSkip: ">=" in place of ">".           *)
buildPreviewOrSkipFrom(json, bin, sel, options) ==
    IF json = <<>> \/ bin = <<>> \/ sel = <<>> THEN <<>>
    ELSE IF bin[1].byteLength >= MAX_PREVIEW_BYTES
    THEN <<ResultMessage("preview", buildStats(sel[1]), <<>>, TRUE)>>
    ELSE buildAndPost(json, bin, sel, options, "preview")

buildPreviewOrSkip(json, bin, sel, options) ==
    IF json = <<>> \/ bin = <<>> \/ sel = <<>> THEN <<>>
    ELSE IF bin[1].byteLength > MAX_PREVIEW_BYTES
    THEN <<ResultMessage("preview", buildStats(sel[1]), <<>>, TRUE)>>
    ELSE buildAndPost(json, bin, sel, options, "preview")

HandleLoad ==
    /\ inbox # <<>>
    /\ Head(inbox).type = "load"
    /\ LET data == Head(inbox)
       IN  /\ captureJson' = data.json
           /\ captureBin' = data.bin
           /\ IF pickMainDrawCallThrows(data.json[1])
              THEN /\ selected' = selected
                   /\ Reply(Unmoved(mem, <<ErrorEvent(NullContextError)>>))
              ELSE /\ selected' = pickMainDrawCall(data.json[1])
                   /\ IF pickMainDrawCall(data.json[1]) = <<>>
                      THEN Reply(Unmoved(mem, <<ErrorMessage(NoSuitableDraw)>>))
                      ELSE Reply(Sent(mem,
                                      buildPreviewOrSkip(data.json, data.bin,
                                                         pickMainDrawCall(data.json[1]),
                                                         data.options),
                                      data.bin[1]))
    /\ inbox' = Tail(inbox)
    /\ UNCHANGED <<args, ret, ui>>

HandleStore ==
    /\ inbox # <<>>
    /\ Head(inbox).type = "store"
    /\ LET data == Head(inbox)
       IN  /\ captureJson' = data.json
           /\ captureBin' = data.bin
           /\ IF pickMainDrawCallThrows(data.json[1])
              THEN /\ selected' = selected
                   /\ Reply(Unmoved(mem, <<ErrorEvent(NullContextError)>>))
              ELSE /\ selected' = pickMainDrawCall(data.json[1])
                   /\ IF pickMainDrawCall(data.json[1]) = <<>>
                      THEN Reply(Unmoved(mem, <<ErrorMessage(NoSuitableDraw)>>))
                      ELSE Reply(Unmoved(mem,
                                         <<ResultMessage("stored",
                                                         buildStats(pickMainDrawCall(data.json[1])[1]),
                                                         <<>>, FALSE)>>))
    /\ inbox' = Tail(inbox)
    /\ UNCHANGED <<args, ret, ui>>

HandleRebuild ==
    /\ inbox # <<>>
    /\ Head(inbox).type = "rebuild"
    /\ IF captureJson = <<>> \/ captureBin = <<>> \/ selected = <<>>
       THEN Reply(Unmoved(mem, <<ErrorMessage(MissingCapture)>>))
       ELSE Reply(Sent(mem,
                       buildPreviewOrSkip(captureJson, captureBin, selected, Head(inbox).options),
                       captureBin[1]))
    /\ inbox' = Tail(inbox)
    /\ UNCHANGED <<captureJson, captureBin, selected, args, ret, ui>>

HandleDownload ==
    /\ inbox # <<>>
    /\ Head(inbox).type = "download"
    /\ IF captureJson = <<>> \/ captureBin = <<>> \/ selected = <<>>
       THEN Reply(Unmoved(mem, <<ErrorMessage(MissingCapture)>>))
       ELSE Reply(Sent(mem,
                       buildAndPost(captureJson, captureBin, selected, Head(inbox).options,
                                    "download"),
                       captureBin[1]))
    /\ inbox' = Tail(inbox)
    /\ UNCHANGED <<captureJson, captureBin, selected, args, ret, ui>>

WorkerStart ==
    /\ captureJson = <<>>
    /\ captureBin = <<>>
    /\ selected = <<>>
    /\ outbox = <<>>

(* The App component once mounted: the state of lines 31-51 after the      *)
(* first run of the effect, which creates worker 1.  previewUrl counts the *)
(* object URLs made (0 is null), effectFor is the previewUrl the effect    *)
(* last ran for, workerRef the worker made by that run, reading the calls  *)
(* of handleFiles that await readCaptureFiles, delivered the number of     *)
(* outbox entries the page has handled, events the number of user events.  *)
Mounted ==
    [isBuilding |-> FALSE, hasCapture |-> FALSE, previewUrl |-> 0, effectFor |-> 0,
     workerRef |-> 1, reading |-> <<>>, delivered |-> 0, events |-> 0,
     status |-> "Waiting for files..."]

(* The buffers of the messages a worker is given without a page.           *)
Received == [owner |-> <<"worker", "worker", "worker">>, reads |-> <<>>]

NoPage == ui = Mounted /\ mem = Received

NoHeap == [objects |-> <<>>, buffers |-> <<>>]

NoRet == [gltf |-> <<>>, obj |-> <<>>, codec |-> <<>>, glb |-> <<>>, heap |-> NoHeap]

NoCall ==
    /\ args = [fn |-> "none"]
    /\ ret = NoRet

----------------------------------------------------------------------------
(* Inputs.  Bounds of the model.                                           *)

MaxCount == 1

MaxDraws == 3

MaxAttribs == 2

DefaultOptions ==
    [scale |-> 1, biasX |-> 0, biasY |-> 0, biasZ |-> 0, swapYZ |-> FALSE, invertZ |-> FALSE]

NotANumber == [t |-> "str", v |-> 0]

Attrib(index, size, typeEnum, normalized, stride, offset, bufferId) ==
    [index |-> index, size |-> size, typeEnum |-> typeEnum, normalized |-> normalized,
     stride |-> stride, offset |-> offset, bufferId |-> bufferId]

BufferEntry(id, binOffset, byteLength) == [id |-> id, binOffset |-> binOffset, byteLength |-> byteLength]

(* A raw buffer of 28 bytes holding four buffers: indices at 0, positions  *)
(* at 4 (the floats 2, -3 and 5), normals at 16, UVs at 22.  The           *)
(* descriptor of the UV buffer claims 8 bytes, 2 more than the blob holds. *)
SmallBin ==
    [id |-> 1, byteLength |-> 28,
     bytes |-> <<1, 0, 2, 0, 0, 0, 0, 64, 0, 0, 64, 192, 0, 0, 160, 64>>
               \o [i \in 1 .. 12 |-> ((i + 16) * 37) % 256]]

IndexBuffer == BufferEntry(1, 0, 4)

PositionBuffer == BufferEntry(2, 4, 12)

NormalBuffer == BufferEntry(3, 16, 6)

UvBuffer == BufferEntry(4, 22, 8)

AllBuffers == <<IndexBuffer, PositionBuffer, NormalBuffer, UvBuffer>>

FloatPosition == Attrib(0, 3, GL_FLOAT, FALSE, 0, 0, PositionBuffer.id)

DrawOf(count, indexTypeEnum) ==
    [kind |-> "drawElements", mode |-> 4, count |-> count, indexTypeEnum |-> indexTypeEnum,
     indexOffset |-> <<0>>, elementArrayBufferId |-> <<IndexBuffer.id>>,
     attribs |-> <<(<<FloatPosition>>)>>]

(* Draws for the selector: one draw of every count, a second draw of the   *)
(* count MaxCount (so that two different draws tie), a draw whose count is *)
(* Infinity, and for each filter of the selector a draw that fails that    *)
(* filter alone and has a larger count than every finite one.              *)
GoodDraws ==
    {DrawOf(Num(v), GL_UNSIGNED_SHORT) : v \in 0 .. MaxCount}
    \cup {DrawOf(Num(MaxCount), GL_UNSIGNED_INT), DrawOf(Infinity, GL_UNSIGNED_SHORT)}

TopDraw == DrawOf(Num(MaxCount + 1), GL_UNSIGNED_SHORT)

FlawedDraws ==
    {[TopDraw EXCEPT !.kind = "drawArrays"],
     [TopDraw EXCEPT !.mode = 1],
     [TopDraw EXCEPT !.count = NotANumber],
     [TopDraw EXCEPT !.attribs = <<>>],
     [TopDraw EXCEPT !.attribs = <<(<<>>)>>],
     [TopDraw EXCEPT !.elementArrayBufferId = <<>>],
     [TopDraw EXCEPT !.elementArrayBufferId = <<0>>]}

SelectorDraws == GoodDraws \cup FlawedDraws

(* A context holding these draws; "draws" is left out when there are none. *)
ContextOf(draws) == [draws |-> IF draws = <<>> THEN <<>> ELSE <<draws>>]

(* The draws split over two contexts after the first cut draws.            *)
TraceOf(draws, cut, buffers) ==
    [buffers |-> buffers,
     contexts |-> <<(<<ContextOf(SubSeq(draws, 1, cut)), ContextOf(SubSeq(draws, cut + 1, Len(draws)))>>)>>]

(* Traces without draws: contexts absent or empty, buffers absent, empty   *)
(* or present.                                                             *)
EmptyTraces ==
    {[buffers |-> buffers, contexts |-> contexts] :
        buffers \in {<<>>, <<(<<>>)>>, <<AllBuffers>>}, contexts \in {<<>>, <<(<<>>)>>}}

(* Attribute lists for the classifier: every slot index below MaxAttribs   *)
(* (equal slot indices included), in every order, with the shapes that     *)
(* each rule accepts and the shapes that miss a rule by one field.         *)
Shapes ==
    {<<3, GL_FLOAT, FALSE>>, <<3, GL_UNSIGNED_SHORT, FALSE>>, <<3, GL_UNSIGNED_SHORT, TRUE>>,
     <<3, GL_BYTE, TRUE>>, <<3, GL_SHORT, TRUE>>, <<3, GL_SHORT, FALSE>>,
     <<2, GL_UNSIGNED_BYTE, TRUE>>, <<2, GL_UNSIGNED_SHORT, TRUE>>, <<2, GL_UNSIGNED_SHORT, FALSE>>,
     <<2, GL_FLOAT, FALSE>>, <<4, GL_FLOAT, FALSE>>, <<4, GL_BYTE, TRUE>>}

ClassifierAttribs ==
    {Attrib(index, shape[1], shape[2], shape[3], 0, 0, PositionBuffer.id) :
        index \in 0 .. (MaxAttribs - 1), shape \in Shapes}

ClassifierTrace(attribs) ==
    [buffers |-> <<AllBuffers>>,
     contexts |-> <<(<<ContextOf(<<[DrawOf(Num(MaxCount), GL_UNSIGNED_SHORT)
                                      EXCEPT !.attribs = <<attribs>>]>>)>>)>>]

ToWorker(type, json, bin, options) == [type |-> type, json |-> json, bin |-> bin, options |-> options]

(* The worker handling the first message it receives: a load or a store    *)
(* of any selector trace.                                                  *)
InitSelector ==
    /\ WorkerStart
    /\ NoPage
    /\ NoCall
    /\ \E type \in {"load", "store"} :
          \/ \E n \in 0 .. MaxDraws : \E draws \in [1 .. n -> SelectorDraws] :
                \E cut \in 0 .. n :
                   inbox = <<ToWorker(type, <<TraceOf(draws, cut, <<AllBuffers>>)>>, <<SmallBin>>,
                                      DefaultOptions)>>
          \/ \E json \in EmptyTraces :
                inbox = <<ToWorker(type, <<json>>, <<SmallBin>>, DefaultOptions)>>

NextSelector == HandleLoad \/ HandleStore

SpecSelector == InitSelector /\ [][NextSelector]_vars

(* The worker storing a capture whose single draw has any attribute list.  *)
InitClassifier ==
    /\ WorkerStart
    /\ NoPage
    /\ NoCall
    /\ \E n \in 1 .. MaxAttribs : \E attribs \in [1 .. n -> ClassifierAttribs] :
          inbox = <<ToWorker("store", <<ClassifierTrace(attribs)>>, <<SmallBin>>, DefaultOptions)>>

SpecClassifier == InitClassifier /\ [][HandleStore]_vars

----------------------------------------------------------------------------
(* Direct calls.  args names the function and holds its inputs; ret holds  *)
(* what each call returned: [gltf, obj, codec], each optional.             *)

(* Inputs of buildGltf and buildObj: a selection made by pickMainDrawCall  *)
(* from a trace with one draw.  The attribute list holds, in an order that *)
(* is not the slot order, a filler no rule matches and optionally a        *)
(* position, a normal and a UV attribute; the buffer set holds any of the  *)
(* descriptors named by PresentSets.                                       *)
Filler == Attrib(3, 4, GL_FLOAT, FALSE, 0, 0, PositionBuffer.id)

StrideSet == {0, 2}

PositionChoices ==
    {<<>>, <<FloatPosition>>,
     <<Attrib(0, 3, GL_UNSIGNED_SHORT, FALSE, 0, PositionBuffer.byteLength + 4, PositionBuffer.id)>>}
    \cup {<<Attrib(0, 3, GL_UNSIGNED_SHORT, FALSE, stride, 0, PositionBuffer.id)>> :
             stride \in StrideSet}

NormalChoices ==
    {<<>>, <<Attrib(1, 3, GL_SHORT, TRUE, 0, NormalBuffer.byteLength + 2, NormalBuffer.id)>>}
    \cup {<<Attrib(1, 3, typeEnum, TRUE, stride, 0, NormalBuffer.id)>> :
             typeEnum \in {GL_BYTE, GL_SHORT}, stride \in StrideSet}

UvChoices ==
    {<<>>, <<Attrib(2, 2, GL_UNSIGNED_SHORT, TRUE, 0, UvBuffer.byteLength + 2, UvBuffer.id)>>}
    \cup {<<Attrib(2, 2, typeEnum, TRUE, stride, 0, UvBuffer.id)>> :
             typeEnum \in {GL_UNSIGNED_BYTE, GL_UNSIGNED_SHORT}, stride \in StrideSet}

AllIds == {AllBuffers[i].id : i \in 1 .. Len(AllBuffers)}

PresentSets == {AllIds} \cup {AllIds \ {id} : id \in AllIds} \cup {{IndexBuffer.id, PositionBuffer.id}}

BuffersWith(ids) == SelectSeq(AllBuffers, LAMBDA b : b.id \in ids)

IndexTypes == {GL_UNSIGNED_SHORT, GL_UNSIGNED_INT, GL_FLOAT + 1}

IndexCounts == {Num(v) : v \in 0 .. MaxCount} \cup {Infinity}

BuildTrace(pos, nrm, uv, ids, indexTypeEnum, count, indexOffset) ==
    [buffers |-> <<BuffersWith(ids)>>,
     contexts |-> <<(<<ContextOf(<<[DrawOf(count, indexTypeEnum)
                                      EXCEPT !.attribs = <<(<<Filler>> \o uv \o nrm \o pos)>>,
                                             !.indexOffset = indexOffset]>>)>>)>>]

BuildArgs(json) ==
    [fn |-> "build", bin |-> SmallBin, json |-> json, selected |-> pickMainDrawCall(json)[1],
     options |-> DefaultOptions]

(* Inputs of the codec.  Raw values are those readScalar can return for    *)
(* the type: every value of the 8-bit types, and for the wider types the   *)
(* values within SampleSpan of zero and of the ends of the range.          *)
SampleSpan == 2

SignedSamples(bits) ==
    IF bits <= 16
    THEN {WideOfInt(v) : v \in {n \in (0 - Pow2(bits - 1)) .. (Pow2(bits - 1) - 1) :
                                   \/ bits = 8
                                   \/ n <= SampleSpan - Pow2(bits - 1)
                                   \/ n >= Pow2(bits - 1) - 1 - SampleSpan
                                   \/ (n >= 0 - SampleSpan /\ n <= SampleSpan)}}
    ELSE {Wide(0 - Pow2(bits - 17), k) : k \in 0 .. SampleSpan}
         \cup {Wide(Pow2(bits - 17) - 1, Half - 1 - k) : k \in 0 .. SampleSpan}
         \cup {WideOfInt(k) : k \in (0 - SampleSpan) .. SampleSpan}

UnsignedSamples(bits) ==
    IF bits = 8 THEN {WideOfInt(v) : v \in 0 .. 255}
    ELSE {Wide(Pow2(bits - 16) - 1, Half - 1 - k) : k \in 0 .. SampleSpan}
         \cup {WideOfInt(k) : k \in 0 .. SampleSpan}

FloatSamples == {[k |-> "f32", hi |-> hi, lo |-> 0] : hi \in {0, 16256, 49024, 16384}}

RawSamples(typeEnum) ==
    CASE typeEnum = GL_BYTE -> SignedSamples(8)
      [] typeEnum = GL_UNSIGNED_BYTE -> UnsignedSamples(8)
      [] typeEnum = GL_SHORT -> SignedSamples(16)
      [] typeEnum = GL_UNSIGNED_SHORT -> UnsignedSamples(16)
      [] typeEnum = GL_INT -> SignedSamples(32)
      [] typeEnum = GL_UNSIGNED_INT -> UnsignedSamples(32)
      [] typeEnum = GL_FLOAT -> FloatSamples
      [] OTHER -> {WideOfInt(k) : k \in 0 .. SampleSpan}

TypeEnums == (GL_BYTE - 1) .. (GL_FLOAT + 1)

InitCall ==
    /\ WorkerStart
    /\ NoPage
    /\ inbox = <<>>
    /\ ret = NoRet
    /\ \/ \E pos \in PositionChoices, nrm \in NormalChoices, uv \in UvChoices, ids \in PresentSets :
            \E indexTypeEnum \in IndexTypes, count \in IndexCounts, indexOffset \in {<<>>, <<2>>} :
               args = BuildArgs(BuildTrace(pos, nrm, uv, ids, indexTypeEnum, count, indexOffset))
       \/ \E typeEnum \in TypeEnums :
            args = [fn |-> "bytesPerComponent", typeEnum |-> typeEnum]
       \/ \E typeEnum \in TypeEnums, byteOffset \in -1 .. SmallBin.byteLength :
            args = [fn |-> "readScalar", dv |-> SmallBin, byteOffset |-> byteOffset,
                    typeEnum |-> typeEnum]
       \/ \E typeEnum \in TypeEnums : \E val \in RawSamples(typeEnum) :
            args = [fn |-> "normalizeInt", val |-> val, typeEnum |-> typeEnum]

CallBuildGltf ==
    /\ args.fn = "build"
    /\ ret.gltf = <<>>
    /\ ret' = [ret EXCEPT !.gltf = <<buildGltf(args.bin, args.selected, args.options)>>]
    /\ UNCHANGED <<args, workerVars, pageVars>>

CallBuildObj ==
    /\ args.fn = "build"
    /\ ret.obj = <<>>
    /\ ret' = [ret EXCEPT !.obj = <<buildObj(args.bin, args.selected, args.options)>>]
    /\ UNCHANGED <<args, workerVars, pageVars>>

CallBytesPerComponent ==
    /\ args.fn = "bytesPerComponent"
    /\ ret.codec = <<>>
    /\ ret' = [ret EXCEPT !.codec = <<bytesPerComponent(args.typeEnum)>>]
    /\ UNCHANGED <<args, workerVars, pageVars>>

CallReadScalar ==
    /\ args.fn = "readScalar"
    /\ ret.codec = <<>>
    /\ ret' = [ret EXCEPT !.codec = <<readScalar(args.dv, args.byteOffset, args.typeEnum)>>]
    /\ UNCHANGED <<args, workerVars, pageVars>>

CallNormalizeInt ==
    /\ args.fn = "normalizeInt"
    /\ ret.codec = <<>>
    /\ ret' = [ret EXCEPT !.codec = <<normalizeInt(args.val, args.typeEnum)>>]
    /\ UNCHANGED <<args, workerVars, pageVars>>

NextCall ==
    \/ CallBuildGltf
    \/ CallBuildObj
    \/ CallBytesPerComponent
    \/ CallReadScalar
    \/ CallNormalizeInt

SpecCall == InitCall /\ [][NextCall]_vars

----------------------------------------------------------------------------
(* Direct calls of buildGltf and buildObj on a mesh: every decode option,  *)
(* index counts up to MaxIndices of the three unsigned index types,        *)
(* positions that are floats or unsigned shorts, tightly packed or not, at *)
(* an offset or not (one offset leaves no room for a vertex), with and     *)
(* without a normal and a UV channel.                                      *)

MaxIndices == 4

MeshPositions ==
    {FloatPosition,
     Attrib(0, 3, GL_FLOAT, TRUE, 0, 0, PositionBuffer.id),
     Attrib(0, 3, GL_UNSIGNED_SHORT, FALSE, 0, 0, PositionBuffer.id),
     Attrib(0, 3, GL_UNSIGNED_SHORT, FALSE, 4, 0, PositionBuffer.id),
     Attrib(0, 3, GL_UNSIGNED_SHORT, FALSE, 0, 6, PositionBuffer.id),
     Attrib(0, 3, GL_UNSIGNED_SHORT, FALSE, 0, 8, PositionBuffer.id)}

MeshOptions ==
    {[scale |-> scale, biasX |-> bias[1], biasY |-> bias[2], biasZ |-> bias[3],
      swapYZ |-> swapYZ, invertZ |-> invertZ] :
        scale \in {1, 1000}, bias \in {<<0, 0, 0>>, <<1, 2, 3>>},
        swapYZ \in BOOLEAN, invertZ \in BOOLEAN}

InitMesh ==
    /\ WorkerStart
    /\ NoPage
    /\ inbox = <<>>
    /\ ret = NoRet
    /\ \E pos \in MeshPositions,
          nrm \in {<<>>, <<Attrib(1, 3, GL_BYTE, TRUE, 0, 0, NormalBuffer.id)>>},
          uv \in {<<>>, <<Attrib(2, 2, GL_UNSIGNED_BYTE, TRUE, 0, 0, UvBuffer.id)>>} :
          \E indexTypeEnum \in {GL_UNSIGNED_BYTE, GL_UNSIGNED_SHORT, GL_UNSIGNED_INT},
             count \in 0 .. MaxIndices, options \in MeshOptions :
             args = [BuildArgs(BuildTrace(<<pos>>, nrm, uv, AllIds, indexTypeEnum, Num(count), <<0>>))
                       EXCEPT !.options = options]

NextMesh ==
    \/ CallBuildGltf
    \/ CallBuildObj

SpecMesh == InitMesh /\ [][NextMesh]_vars

----------------------------------------------------------------------------
(* Direct calls of buildGlb, twice on the same built asset: scene          *)
(* descriptions without buffers, with an empty array, with one or two      *)
(* buffer objects that carry a uri and a byteLength or not, and payloads   *)
(* of 0 to MaxPayload bytes.                                               *)

MaxPayload == 5

GlbBufferObjects ==
    {[uri |-> uri, byteLength |-> byteLength] :
        uri \in {<<>>, <<<<109, 46, 98, 105, 110>>>>},
        byteLength \in {<<>>, <<Num(7)>>, <<Num(1234)>>, <<Infinity>>}}

GlbHeaps ==
    {[objects |-> <<[scene |-> scene, buffers |-> buffers]>>, buffers |-> <<>>] :
        scene \in {<<>>, <<Num(0)>>, <<Infinity>>}, buffers \in {<<>>, <<(<<>>)>>}}
    \cup {[objects |-> <<[scene |-> scene, buffers |-> <<(<<1>>)>>]>>, buffers |-> <<first>>] :
             scene \in {<<>>, <<Num(0)>>, <<Infinity>>}, first \in GlbBufferObjects}
    \cup {[objects |-> <<[scene |-> <<Num(0)>>, buffers |-> <<(<<1, 2>>)>>]>>,
           buffers |-> <<first, [uri |-> <<<<109, 46, 98, 105, 110>>>>, byteLength |-> <<Infinity>>]>>] :
             first \in GlbBufferObjects}

InitGlb ==
    /\ WorkerStart
    /\ NoPage
    /\ inbox = <<>>
    /\ \E heap \in GlbHeaps, n \in 0 .. MaxPayload :
          /\ args = [fn |-> "buildGlb", heap |-> heap,
                     built |-> [gltfJsonObj |-> 1, binU8 |-> [k \in 1 .. n |-> (k * 37) % 256]]]
          /\ ret = [NoRet EXCEPT !.heap = heap]

CallBuildGlb ==
    /\ args.fn = "buildGlb"
    /\ Len(ret.glb) < 2
    /\ ret' = [ret EXCEPT !.glb = Append(@, buildGlb(ret.heap, args.built).glb),
                          !.heap = buildGlb(ret.heap, args.built).heap]
    /\ UNCHANGED <<args, workerVars, pageVars>>

SpecGlb == InitGlb /\ [][CallBuildGlb]_vars

----------------------------------------------------------------------------
(* The worker receiving up to MaxMessages messages from the page: captures *)
(* with and without a suitable draw, a raw buffer over the preview limit,  *)
(* rebuilds and downloads.                                                 *)

MaxMessages == 3

BigBin == [id |-> 2, byteLength |-> MAX_PREVIEW_BYTES + 1, bytes |-> SmallBin.bytes]

ExactBin == [id |-> 3, byteLength |-> MAX_PREVIEW_BYTES, bytes |-> SmallBin.bytes]

(* Traces for the worker: one whose draw decodes, one without draws, one   *)
(* whose draw has the count Infinity (selected, and its decode throws),    *)
(* and one whose only context is null.                                     *)
WorkerTraces ==
    <<TraceOf(<<DrawOf(Num(MaxCount), GL_UNSIGNED_SHORT)>>, 1, <<AllBuffers>>),
      TraceOf(<<>>, 0, <<AllBuffers>>),
      TraceOf(<<DrawOf(Infinity, GL_UNSIGNED_SHORT)>>, 1, <<AllBuffers>>),
      [buffers |-> <<AllBuffers>>, contexts |-> <<(<<NullContext>>)>>]>>

(* Messages for the worker: the trace that decodes with a raw buffer       *)
(* below, at and above the preview threshold, the other traces with the    *)
(* small one.                                                              *)
WorkerMessages ==
    {ToWorker(type, <<WorkerTraces[1]>>, <<bin>>, DefaultOptions) :
        type \in {"load", "store"}, bin \in {SmallBin, BigBin, ExactBin}}
    \cup {ToWorker(type, <<WorkerTraces[k]>>, <<SmallBin>>, DefaultOptions) :
             type \in {"load", "store"}, k \in 2 .. 4}
    \cup {ToWorker(type, <<>>, <<>>, DefaultOptions) : type \in {"rebuild", "download"}}

Init ==
    /\ WorkerStart
    /\ NoPage
    /\ NoCall
    /\ \E n \in 1 .. MaxMessages : \E messages \in [1 .. n -> WorkerMessages] : inbox = messages

Next ==
    \/ HandleLoad
    \/ HandleStore
    \/ HandleRebuild
    \/ HandleDownload

Spec == Init /\ [][Next]_vars

----------------------------------------------------------------------------
(* The App component and its worker.  The user drops capture files, asks   *)
(* for a download and uploads a GLB to preview, up to MaxEvents times in   *)
(* all; the page and the worker run their handlers one at a time, in any   *)
(* order the two event loops allow.                                        *)

MaxEvents == 3

(* What the user drops: a trace that decodes, one without draws and one    *)
(* whose only context is null, each with its raw buffer; a trace alone;    *)
(* and a .json file that is not JSON.                                      *)
DroppedFiles ==
    {[parses |-> TRUE, json |-> <<WorkerTraces[k]>>, bin |-> TRUE] : k \in {1, 2, 4}}
    \cup {[parses |-> TRUE, json |-> <<WorkerTraces[1]>>, bin |-> FALSE],
          [parses |-> FALSE, json |-> <<>>, bin |-> FALSE]}

(* readCaptureFiles: file.arrayBuffer() makes a new buffer of the page.    *)
readCaptureFiles(files, m) ==
    [parses |-> files.parses, captureJson |-> files.json,
     captureBin |-> IF files.bin THEN <<[SmallBin EXCEPT !.id = Len(m.owner) + 1]>> ELSE <<>>]

Without(seq, i) == SubSeq(seq, 1, i - 1) \o SubSeq(seq, i + 1, Len(seq))

(* handleFiles up to its await: the files are being read.                  *)
DropFiles ==
    /\ ui.events < MaxEvents
    /\ \E files \in DroppedFiles :
          /\ ui' = [ui EXCEPT !.events = @ + 1,
                              !.reading = Append(@, readCaptureFiles(files, mem))]
          /\ mem' = IF files.bin THEN Allocate(mem, "ui") ELSE mem
    /\ UNCHANGED <<workerVars, callVars>>

(* handleFiles after its await, for read i.                                *)
FilesRead ==
    /\ \E i \in 1 .. Len(ui.reading) :
          LET read == ui.reading[i]
              rest == [ui EXCEPT !.reading = Without(@, i)]
          IN  IF ~read.parses
              THEN /\ ui' = [rest EXCEPT !.status = "Unexpected token", !.isBuilding = FALSE]
                   /\ UNCHANGED <<inbox, mem>>
              ELSE IF read.captureJson = <<>> \/ read.captureBin = <<>>
              THEN /\ ui' = [rest EXCEPT !.status = "Please provide both the .json and .bin files."]
                   /\ UNCHANGED <<inbox, mem>>
              ELSE IF ui.workerRef = 0
              THEN /\ ui' = [rest EXCEPT !.status = "Worker not ready. Please reload the page."]
                   /\ UNCHANGED <<inbox, mem>>
              ELSE /\ ui' = [rest EXCEPT !.isBuilding = TRUE,
                                         !.status = "Processing capture files...",
                                         !.hasCapture = FALSE]
                   /\ inbox' = Append(inbox, ToWorker("store", read.captureJson, read.captureBin,
                                                      DefaultOptions))
                   /\ mem' = Transfer(mem, {read.captureBin[1].id}, "worker")
    /\ UNCHANGED <<captureJson, captureBin, selected, outbox, callVars>>

handleDownloadGlb ==
    /\ ui.events < MaxEvents
    /\ ~(ui.workerRef = 0 \/ ~ui.hasCapture \/ ui.isBuilding)
    /\ ui' = [ui EXCEPT !.events = @ + 1, !.isBuilding = TRUE,
                        !.status = "Building GLB for download..."]
    /\ inbox' = Append(inbox, ToWorker("download", <<>>, <<>>, DefaultOptions))
    /\ UNCHANGED <<mem, captureJson, captureBin, selected, outbox, callVars>>

(* handlePreviewUpload with a .glb file: a new object URL.                 *)
handlePreviewUpload ==
    /\ ui.events < MaxEvents
    /\ ui' = [ui EXCEPT !.events = @ + 1, !.previewUrl = @ + 1,
                        !.status = "Preview loaded from uploaded GLB."]
    /\ UNCHANGED <<mem, workerVars, callVars>>

(* worker.terminate(): the worker's pending messages, its state and the    *)
(* replies not yet delivered are discarded, and its buffers with them.     *)
Terminated(m) ==
    [m EXCEPT !.owner = [i \in 1 .. Len(m.owner) |->
                            IF m.owner[i] = "worker" THEN "none" ELSE m.owner[i]]]

(* The effect of [previewUrl] re-run: the cleanup of the last run, then a  *)
(* new worker.                                                             *)
RunEffect ==
    /\ ui.previewUrl # ui.effectFor
    /\ inbox' = <<>>
    /\ captureJson' = <<>>
    /\ captureBin' = <<>>
    /\ selected' = <<>>
    /\ outbox' = <<>>
    /\ mem' = Terminated(mem)
    /\ ui' = [ui EXCEPT !.workerRef = @ + 1, !.effectFor = ui.previewUrl, !.delivered = 0]
    /\ UNCHANGED callVars

(* worker.onmessage                                                        *)
OnMessage ==
    /\ ui.delivered < Len(outbox)
    /\ outbox[ui.delivered + 1].type \in {"result", "error"}
    /\ LET data == outbox[ui.delivered + 1]
           got == [ui EXCEPT !.delivered = @ + 1]
       IN  IF data.type = "result"
           THEN IF data.purpose = "stored"
                THEN /\ ui' = [got EXCEPT !.status = "Capture loaded. You can download a GLB when ready.",
                                          !.hasCapture = TRUE, !.isBuilding = FALSE]
                     /\ mem' = mem
                ELSE IF data.purpose = "preview"
                THEN /\ ui' = [got EXCEPT !.status = IF data.previewSkipped
                                                     THEN "Preview skipped due to size. You can still download GLB."
                                                     ELSE @,
                                          !.hasCapture = TRUE, !.isBuilding = FALSE]
                     /\ mem' = mem
                ELSE IF data.glb # <<>>
                THEN /\ ui' = [got EXCEPT !.status = "Download complete. Upload the GLB to preview it.",
                                          !.isBuilding = FALSE]
                     /\ mem' = ReadBy(mem, "ui", data.transfer[1])
                ELSE /\ ui' = [got EXCEPT !.isBuilding = FALSE]
                     /\ mem' = mem
           ELSE /\ ui' = [got EXCEPT !.status = data.message, !.isBuilding = FALSE]
                /\ mem' = mem
    /\ UNCHANGED <<workerVars, callVars>>

(* worker.onerror                                                          *)
OnError ==
    /\ ui.delivered < Len(outbox)
    /\ outbox[ui.delivered + 1].type = "errorevent"
    /\ ui' = [ui EXCEPT !.delivered = @ + 1, !.status = outbox[ui.delivered + 1].message,
                        !.isBuilding = FALSE]
    /\ UNCHANGED <<mem, workerVars, callVars>>

InitApp ==
    /\ WorkerStart
    /\ NoCall
    /\ inbox = <<>>
    /\ ui = Mounted
    /\ mem = NoMem

NextApp ==
    \/ DropFiles
    \/ FilesRead
    \/ handleDownloadGlb
    \/ handlePreviewUpload
    \/ RunEffect
    \/ OnMessage
    \/ OnError
    \/ HandleStore
    \/ HandleDownload

SpecApp == InitApp /\ [][NextApp]_vars

(* A step of the worker's event loop: self.onmessage takes the message at  *)
(* the head of the queue and runs to completion, the page untouched.  The  *)
(* steps of HandleStore and of HandleDownload are the steps of NextApp of  *)
(* this form, and one of them is possible whenever a message is queued.    *)
WorkerRuns ==
    /\ inbox # <<>>
    /\ inbox' = Tail(inbox)
    /\ ui' = ui

(* Both event loops run what is queued for them: the worker its messages,  *)
(* the page the replies, the pending effect and the file reads.  The user  *)
(* owes nothing.                                                           *)
FairSpecApp ==
    /\ SpecApp
    /\ WF_inbox(WorkerRuns)
    /\ WF_vars(OnMessage)
    /\ WF_vars(OnError)
    /\ WF_vars(RunEffect)
    /\ WF_vars(FilesRead)

----------------------------------------------------------------------------
(* Properties of the selector and the classifier.                          *)

(* The draws of a trace in traversal order: contexts in order, and the     *)
(* draws of each context in order.                                         *)
RECURSIVE TraversalOrder(_)
TraversalOrder(contexts) ==
    IF contexts = <<>> THEN <<>>
    ELSE (IF IsSome(Head(contexts).draws) THEN Head(contexts).draws[1] ELSE <<>>)
         \o TraversalOrder(Tail(contexts))

DrawsOf(json) == TraversalOrder(IF IsSome(json.contexts) THEN json.contexts[1] ELSE <<>>)

(* Eligibility as the specification states it: an indexed draw of          *)
(* triangles, a finite number as count, a non-empty attribute list and an  *)
(* index buffer id that is present and non-zero.                           *)
Eligible(draw) ==
    /\ draw.kind = "drawElements"
    /\ draw.mode = 4
    /\ draw.count.t = "num"
    /\ Len(draw.attribs) = 1 /\ Len(draw.attribs[1]) > 0
    /\ Len(draw.elementArrayBufferId) = 1 /\ draw.elementArrayBufferId[1] # 0

(* a < b and a <= b on counts that are numbers (finite or Infinity).       *)
CountLess(a, b) == IF b.t = "inf" THEN a.t = "num" ELSE a.t = "num" /\ a.v < b.v

CountAtMost(a, b) == a = b \/ CountLess(a, b)

Handled == inbox = <<>> /\ captureJson # <<>>

(* C1: the draw call that pickMainDrawCall returns has a count >= the      *)
(* count of every eligible draw call of the trace, and every eligible draw *)
(* call before it in traversal order has a strictly smaller count (of      *)
(* several draws with the greatest count the first is returned).           *)
C1_GreatestCountFirstOnTie ==
    (Handled /\ selected # <<>>) =>
        LET all == DrawsOf(captureJson[1])
            picked == selected[1].draw
            at == {i \in 1 .. Len(all) : all[i] = picked}
        IN  /\ at # {}
            /\ \A i \in 1 .. Len(all) :
                  Eligible(all[i]) =>
                      /\ CountAtMost(all[i].count, picked.count)
                      /\ (i < SetMin(at) => CountLess(all[i].count, picked.count))

(* A tie was decided: two different eligible draws have the count of the   *)
(* returned one, and the returned one is the earlier.                      *)
C1_Witness ==
    /\ Handled
    /\ selected # <<>>
    /\ LET all == DrawsOf(captureJson[1])
       IN  \E i, j \in 1 .. Len(all) :
              /\ i < j
              /\ all[i] # all[j]
              /\ Eligible(all[i]) /\ Eligible(all[j])
              /\ all[i].count = all[j].count
              /\ selected[1].draw = all[i]
              /\ \E k \in 1 .. Len(all) : ~Eligible(all[k])

(* C2: every draw call that pickMainDrawCall returns is eligible: an       *)
(* indexed draw of triangles whose count is a finite number, whose         *)
(* attribute list is non-empty and whose index buffer id is present and    *)
(* non-zero.                                                               *)
C2_ReturnedDrawIsEligible ==
    (Handled /\ selected # <<>>) => Eligible(selected[1].draw)

(* C3: pickMainDrawCall returns null exactly when the trace holds no       *)
(* eligible draw call, and then the worker answers the load or store with  *)
(* one error message and no result.                                        *)
C3_NullIffNoEligibleDraw ==
    Handled =>
        LET all == DrawsOf(captureJson[1])
            none == \A i \in 1 .. Len(all) : ~Eligible(all[i])
        IN  /\ (selected = <<>>) <=> none
            /\ none => (Len(outbox) = 1 /\ outbox[1].type = "error" /\ outbox[1].glb = <<>>)

(* The rules of the three roles, as the specification states them.         *)
PositionRule(a) ==
    a.size = 3 /\ (a.typeEnum = 5126 \/ (a.typeEnum = 5123 /\ a.normalized = FALSE))

NormalRule(a) == a.size = 3 /\ a.normalized = TRUE /\ a.typeEnum \in {5120, 5122}

UvRule(a) == a.size = 2 /\ a.normalized = TRUE /\ a.typeEnum \in {5121, 5123}

(* The least slot index among the attributes that satisfy a rule.          *)
LeastSlot(attribs, Rule(_)) ==
    LET slots == {attribs[i].index : i \in {k \in 1 .. Len(attribs) : Rule(attribs[k])}}
    IN  IF slots = {} THEN <<>> ELSE <<SetMin(slots)>>

Reverse(seq) == [i \in 1 .. Len(seq) |-> seq[Len(seq) + 1 - i]]

DistinctSlots(attribs) ==
    \A i, j \in 1 .. Len(attribs) : i # j => attribs[i].index # attribs[j].index

StoredAttribs == selected[1].draw.attribs[1]

(* C4: for each role the classifier returns the attribute of least slot    *)
(* index among those matching the role's rule, or none when none matches;  *)
(* with distinct slot indices the order of the list in the trace does not  *)
(* change the result.                                                      *)
C4_FirstMatchBySlotIndex ==
    (Handled /\ selected # <<>> /\ outbox # <<>> /\ outbox[1].type = "result") =>
        LET guessed == outbox[1].stats[1].guessedSemantics
            reversed == [selected[1] EXCEPT !.draw.attribs = <<Reverse(StoredAttribs)>>]
        IN  /\ guessed.positionAttribIndex = LeastSlot(StoredAttribs, PositionRule)
            /\ guessed.normalAttribIndex = LeastSlot(StoredAttribs, NormalRule)
            /\ guessed.uvAttribIndex = LeastSlot(StoredAttribs, UvRule)
            /\ DistinctSlots(StoredAttribs) => buildStats(reversed).guessedSemantics = guessed

(* Two position candidates listed against their slot order: the later in   *)
(* the list, of smaller slot index, is the one returned.                   *)
C4_Witness ==
    /\ Handled
    /\ selected # <<>>
    /\ Len(StoredAttribs) = 2
    /\ PositionRule(StoredAttribs[1]) /\ PositionRule(StoredAttribs[2])
    /\ StoredAttribs[1].index > StoredAttribs[2].index
    /\ outbox[1].stats[1].guessedSemantics.positionAttribIndex = <<StoredAttribs[2].index>>

----------------------------------------------------------------------------
(* Properties of buildGltf and buildObj.                                   *)

CallDraw == args.selected.draw

CallMap == args.selected.buffersById

CallAttribs == CallDraw.attribs[1]

(* What the two builders returned so far. *)
Returns == ret.gltf \o ret.obj

(* The attribute a role's rule designates: the match of least slot index.  *)
Candidate(Rule(_)) ==
    LET slot == LeastSlot(CallAttribs, Rule)
    IN  IF slot = <<>> THEN <<>>
        ELSE <<CallAttribs[CHOOSE i \in 1 .. Len(CallAttribs) :
                               Rule(CallAttribs[i]) /\ CallAttribs[i].index = slot[1]]>>

HasDescriptor(c) == c # <<>> /\ c[1].bufferId \in DOMAIN CallMap

IndexDescriptorMissing == CallDraw.elementArrayBufferId[1] \notin DOMAIN CallMap

PositionDescriptorMissing ==
    Candidate(PositionRule) # <<>> /\ ~HasDescriptor(Candidate(PositionRule))

(* C5: when the descriptor id of the position attribute or the index       *)
(* buffer id of the draw is not in the map of the selection, buildGltf and *)
(* buildObj fail with a missing-buffer error, have read no byte of the raw *)
(* buffer, and produce no geometry or asset.                               *)
C5_MissingDescriptorFailsBeforeAnyRead ==
    (args.fn = "build" /\ Candidate(PositionRule) # <<>>
       /\ (PositionDescriptorMissing \/ IndexDescriptorMissing)) =>
        \A i \in 1 .. Len(Returns) :
           /\ ~Returns[i].ok
           /\ Returns[i].err = (IF PositionDescriptorMissing
                                THEN "Missing position buffer entry in JSON."
                                ELSE "Missing index buffer entry in JSON.")
           /\ \A ch \in DOMAIN Returns[i].reads : Returns[i].reads[ch] = {}
           /\ Returns[i].out = <<>>

(* Both builders have failed on a draw whose index descriptor alone is     *)
(* missing, with a position and a normal channel that could be decoded.    *)
C5_Witness ==
    /\ args.fn = "build"
    /\ Len(Returns) = 2
    /\ IndexDescriptorMissing
    /\ HasDescriptor(Candidate(PositionRule))
    /\ HasDescriptor(Candidate(NormalRule))
    /\ CallDraw.count = Num(MaxCount)
    /\ ~Returns[1].ok /\ ~Returns[2].ok

(* C6: without an attribute matching the position rule buildGltf and       *)
(* buildObj fail with the missing-position error and return no asset,      *)
(* whatever normal and UV attributes there are; and no failure arises      *)
(* from a normal or UV channel that has no candidate.                      *)
C6_PositionRequiredChannelsOptional ==
    args.fn = "build" =>
        \A i \in 1 .. Len(Returns) :
           /\ Candidate(PositionRule) = <<>> =>
                 /\ ~Returns[i].ok
                 /\ Returns[i].err = "Could not find a POSITION-like attribute (size=3)."
                 /\ Returns[i].out = <<>>
           /\ (Candidate(NormalRule) = <<>> /\ ~Returns[i].ok) => Returns[i].stage # "normals"
           /\ (Candidate(UvRule) = <<>> /\ ~Returns[i].ok) => Returns[i].stage # "uvs"
           /\ (Candidate(NormalRule) = <<>> /\ Candidate(UvRule) = <<>> /\ Returns[i].ok) =>
                 (Returns[i].reads.normals = {} /\ Returns[i].reads.uvs = {})

(* Both builders have failed for lack of a position although a normal and  *)
(* a UV candidate with their descriptors are there.                        *)
C6_Witness ==
    /\ args.fn = "build"
    /\ Len(Returns) = 2
    /\ Candidate(PositionRule) = <<>>
    /\ HasDescriptor(Candidate(NormalRule))
    /\ HasDescriptor(Candidate(UvRule))
    /\ ~IndexDescriptorMissing
    /\ ~Returns[1].ok /\ ~Returns[2].ok

(* The slot refers to an accessor of the given type whose buffer view is   *)
(* the piece of the packed buffer holding the named channel, with a count  *)
(* that fills it with 32-bit floats.                                       *)
SlotRefersTo(asset, slot, name, type, ncomp) ==
    LET g == asset.gltfJsonObj
        pieces == asset.binU8.views
    IN  /\ slot[1] + 1 \in 1 .. Len(g.accessors)
        /\ LET acc == g.accessors[slot[1] + 1]
           IN  /\ acc.type = type
               /\ acc.componentType = 5126
               /\ acc.bufferView + 1 \in 1 .. Len(g.bufferViews)
               /\ \E k \in 1 .. Len(pieces) :
                     /\ pieces[k].name = name
                     /\ g.bufferViews[acc.bufferView + 1].byteOffset = pieces[k].byteOffset
                     /\ g.bufferViews[acc.bufferView + 1].byteLength = pieces[k].byteLength
                     /\ acc.count * ncomp * 4 = pieces[k].byteLength

(* C7: in every scene description buildGltf returns, POSITION is present;  *)
(* NORMAL (TEXCOORD_0) is present exactly when a normal (UV) candidate     *)
(* exists and its descriptor id is in the map; each present slot refers to *)
(* the accessor built for its channel; and a candidate whose descriptor is *)
(* missing does not make the build fail.                                   *)
C7_SlotsPresentIffDecoded ==
    (args.fn = "build" /\ ret.gltf # <<>>) =>
        LET r == ret.gltf[1]
            nrm == Candidate(NormalRule)
            uv == Candidate(UvRule)
        IN  /\ r.ok =>
                 LET slots == r.out[1].gltfJsonObj.primitive.attributes
                 IN  /\ IsSome(slots.POSITION)
                     /\ SlotRefersTo(r.out[1], slots.POSITION, "positions", "VEC3", 3)
                     /\ IsSome(slots.NORMAL) <=> HasDescriptor(nrm)
                     /\ IsSome(slots.NORMAL) => SlotRefersTo(r.out[1], slots.NORMAL, "normals", "VEC3", 3)
                     /\ IsSome(slots.TEXCOORD_0) <=> HasDescriptor(uv)
                     /\ IsSome(slots.TEXCOORD_0) =>
                           SlotRefersTo(r.out[1], slots.TEXCOORD_0, "uvs", "VEC2", 2)
            /\ (~r.ok /\ nrm # <<>> /\ ~HasDescriptor(nrm)) => r.stage # "normals"
            /\ (~r.ok /\ uv # <<>> /\ ~HasDescriptor(uv)) => r.stage # "uvs"

(* A scene description was returned with a NORMAL slot and without a       *)
(* TEXCOORD_0 slot, the UV candidate's descriptor being absent.            *)
C7_Witness ==
    /\ args.fn = "build"
    /\ ret.gltf # <<>>
    /\ ret.gltf[1].ok
    /\ IsSome(ret.gltf[1].out[1].gltfJsonObj.primitive.attributes.NORMAL)
    /\ ret.gltf[1].out[1].gltfJsonObj.primitive.attributes.TEXCOORD_0 = <<>>
    /\ Candidate(UvRule) # <<>>
    /\ ret.gltf[1].out[1].decoded.vertexCount > 0

(* Byte width of the component types the normal and UV rules admit.        *)
ChannelWidth(typeEnum) == IF typeEnum \in {5120, 5121} THEN 1 ELSE 2

DescriptorRange(buf) == {b \in buf.binOffset .. (buf.binOffset + buf.byteLength - 1) : TRUE}

ChannelClamped(r, c, count, reads) ==
    HasDescriptor(c) =>
        LET a == c[1]
            buf == CallMap[a.bufferId]
            stride == IF a.stride # 0 THEN a.stride ELSE a.size * ChannelWidth(a.typeEnum)
        IN  /\ r.ok => count = <<Min2(r.out[1].decoded.vertexCount,
                                      (buf.byteLength - a.offset) \div stride)>>
            /\ reads \subseteq DescriptorRange(buf)

(* C8: a decoded normal or UV channel has as vertex count the smaller of   *)
(* the position vertex count and                                           *)
(* floor((buffer.byteLength - offset) / effective stride), and no byte     *)
(* read for the channel lies outside [binOffset, binOffset + byteLength)   *)
(* of its own descriptor.                                                  *)
C8_OptionalChannelStaysInItsBuffer ==
    args.fn = "build" =>
        \A i \in 1 .. Len(Returns) :
           LET r == Returns[i]
           IN  /\ ChannelClamped(r, Candidate(NormalRule),
                                 IF r.ok THEN r.out[1].decoded.normals ELSE <<>>, r.reads.normals)
               /\ ChannelClamped(r, Candidate(UvRule),
                                 IF r.ok THEN r.out[1].decoded.uvs ELSE <<>>, r.reads.uvs)

----------------------------------------------------------------------------
(* Properties of the scalar codec.                                         *)

Supported == 5120 .. 5126

UnsupportedTypeErrors == {"Unsupported component type enum", "Unsupported scalar type enum"}

(* C9: bytesPerComponent, readScalar and normalizeInt each fail with an    *)
(* unsupported-type error on a component type outside 5120..5126, and a    *)
(* buildGltf or buildObj call whose index component type is unsupported    *)
(* returns no asset, whatever the count of the draw.                       *)
C9_UnsupportedTypeFails ==
    /\ (args.fn \in {"bytesPerComponent", "readScalar", "normalizeInt"}
          /\ args.typeEnum \notin Supported /\ ret.codec # <<>>) =>
           (~ret.codec[1].ok /\ ret.codec[1].err \in UnsupportedTypeErrors)
    /\ (args.fn = "build" /\ CallDraw.indexTypeEnum \notin Supported) =>
           \A i \in 1 .. Len(Returns) : ~Returns[i].ok /\ Returns[i].out = <<>>

(* Claim side of normalize: width and signedness of the integer types.     *)
TypeBits(typeEnum) ==
    CASE typeEnum \in {5120, 5121} -> 8
      [] typeEnum \in {5122, 5123} -> 16
      [] typeEnum \in {5124, 5125} -> 32

IsSignedType(typeEnum) == typeEnum \in {5120, 5122, 5124}

(* 2^bits - 1 as a wide integer, bits <= 32.                               *)
AllOnes(bits) == IF bits <= 16 THEN Wide(0, Pow2(bits) - 1) ELSE Wide(Pow2(bits - 16) - 1, Half - 1)

Divisor(typeEnum) ==
    IF IsSignedType(typeEnum) THEN AllOnes(TypeBits(typeEnum) - 1) ELSE AllOnes(TypeBits(typeEnum))

LeastOf(typeEnum) ==
    IF IsSignedType(typeEnum) THEN WideNeg(Wide(Divisor(typeEnum).hi, Divisor(typeEnum).lo + 1))
    ELSE WideZero

GreatestOf(typeEnum) == Divisor(typeEnum)

(* Tests on a quotient num / den with den > 0: its value is -1, is 1, is   *)
(* 0, lies in [-1, 1] (signed) or in [0, 1].                               *)
QuotIsMinusOne(q) == q.num = WideNeg(q.den)

QuotIsOne(q) == q.num = q.den

QuotIsZero(q) == q.num = WideZero

WideLe(a, b) == a = b \/ WideLt(a, b)

QuotWithin(q, signed) ==
    /\ WideLe(q.num, q.den)
    /\ WideLe(IF signed THEN WideNeg(q.den) ELSE WideZero, q.num)

(* C10: for every raw value of an integer component type normalizeInt      *)
(* returns raw / (2^(n-1) - 1) clamped below at -1 for a signed n-bit type *)
(* and raw / (2^n - 1) for an unsigned one; the result lies in [-1, 1]     *)
(* (signed) or [0, 1] (unsigned); the least signed value gives exactly -1, *)
(* the greatest value exactly 1, zero gives 0; a float is returned as is.  *)
C10_NormalizeRangeAndExtremes ==
    (args.fn = "normalizeInt" /\ ret.codec # <<>> /\ args.typeEnum \in Supported) =>
        LET r == ret.codec[1]
            t == args.typeEnum
        IN  /\ r.ok
            /\ IF t = 5126 THEN r.val.num = args.val /\ r.val.den = WideOne
               ELSE /\ WideLt(WideZero, r.val.den)
                    /\ IF IsSignedType(t) /\ WideLt(args.val, WideNeg(Divisor(t)))
                       THEN QuotIsMinusOne(r.val)
                       ELSE r.val.num = args.val /\ r.val.den = Divisor(t)
                    /\ QuotWithin(r.val, IsSignedType(t))
                    /\ args.val = LeastOf(t) => (IF IsSignedType(t) THEN QuotIsMinusOne(r.val)
                                                 ELSE QuotIsZero(r.val))
                    /\ args.val = GreatestOf(t) => QuotIsOne(r.val)
                    /\ args.val = WideZero => QuotIsZero(r.val)

(* normalizeInt was applied to the least value of a signed type, which the *)
(* division alone would take below -1.                                     *)
C10_Witness ==
    /\ args.fn = "normalizeInt"
    /\ ret.codec # <<>>
    /\ args.typeEnum = 5124
    /\ args.val = LeastOf(5124)
    /\ QuotIsMinusOne(ret.codec[1].val)

----------------------------------------------------------------------------
(* Properties of the decoded positions.                                    *)

(* The position attribute of the call and its buffer descriptor.           *)
MeshPosition == Candidate(PositionRule)[1]

MeshPositionBuffer == CallMap[MeshPosition.bufferId]

ComponentByteWidth(typeEnum) ==
    IF typeEnum \in {5120, 5121} THEN 1 ELSE IF typeEnum \in {5122, 5123} THEN 2 ELSE 4

EffectiveStride(a) ==
    IF a.stride # 0 THEN a.stride ELSE a.size * ComponentByteWidth(a.typeEnum)

(* Component c (from 0) of vertex i (from 0) as it lies in the raw buffer: *)
(* the little-endian unsigned short or float at                            *)
(* bufferBase + attributeOffset + i * effectiveStride + c * width.         *)
SourceComponent(i, c) ==
    LET a == MeshPosition
        at == MeshPositionBuffer.binOffset + a.offset + i * EffectiveStride(a)
              + c * ComponentByteWidth(a.typeEnum)
        b(k) == IF at + k < Len(args.bin.bytes) THEN args.bin.bytes[at + k + 1] ELSE 0
    IN  IF a.typeEnum = 5123 THEN b(0) + 256 * b(1)
        ELSE FloatValue([k |-> "f32", hi |-> b(2) + 256 * b(3), lo |-> b(0) + 256 * b(1)])

(* floor((positionBuffer.byteLength - attributeOffset) / effectiveStride)  *)
SourceVertexCount ==
    (MeshPositionBuffer.byteLength - MeshPosition.offset) \div EffectiveStride(MeshPosition)

(* What the specification gives for vertex i (from 0): scale and bias,     *)
(* then the exchange of y and z, then the negation of the new z.           *)
ExpectedPosition(i) ==
    LET o == args.options
        x == SourceComponent(i, 0) * o.scale + o.biasX
        y == SourceComponent(i, 1) * o.scale + o.biasY
        z == SourceComponent(i, 2) * o.scale + o.biasZ
    IN  CASE o.swapYZ /\ o.invertZ -> <<x, z, 0 - y>>
          [] o.swapYZ /\ ~o.invertZ -> <<x, z, y>>
          [] ~o.swapYZ /\ o.invertZ -> <<x, y, 0 - z>>
          [] OTHER -> <<x, y, z>>

AsFloat32(v) == <<Fround(v[1]), Fround(v[2]), Fround(v[3])>>

(* C11: every decoded vertex with source components (x, y, z) is           *)
(* x' = x * scale + biasX, y' = y * scale + biasY, z' = z * scale + biasZ, *)
(* then y' and z' exchanged if swapYZ, then the new z negated if invertZ   *)
(* (so (x', z', -y') with both flags); buildObj keeps these numbers and    *)
(* buildGltf stores them in the same order as 32-bit floats.               *)
C11_ScaleBiasThenSwapThenInvert ==
    args.fn = "build" =>
        /\ \A r \in {ret.gltf[k] : k \in 1 .. Len(ret.gltf)} :
              r.ok => \A i \in 1 .. Len(r.out[1].decoded.positions) :
                         r.out[1].decoded.positions[i] = AsFloat32(ExpectedPosition(i - 1))
        /\ \A r \in {ret.obj[k] : k \in 1 .. Len(ret.obj)} :
              r.ok => \A i \in 1 .. Len(r.out[1].decoded.positions) :
                         r.out[1].decoded.positions[i] = ExpectedPosition(i - 1)

(* Both builders have decoded two vertices with both flags set, a scale    *)
(* and a bias, and the y and z of the first vertex differ in size.         *)
C11_Witness ==
    /\ args.fn = "build"
    /\ args.options.swapYZ /\ args.options.invertZ
    /\ args.options.scale # 1 /\ args.options.biasY # 0
    /\ Len(ret.gltf) = 1 /\ Len(ret.obj) = 1
    /\ ret.gltf[1].ok /\ ret.obj[1].ok
    /\ Len(ret.obj[1].out[1].decoded.positions) = 2
    /\ ret.obj[1].out[1].decoded.positions[1][2] # ret.obj[1].out[1].decoded.positions[1][3]
    /\ ret.obj[1].out[1].decoded.positions[1][2] # 0 - ret.obj[1].out[1].decoded.positions[1][3]
    /\ ret.gltf[1].out[1].decoded.positions[1] = AsFloat32(ret.obj[1].out[1].decoded.positions[1])

(* C12: with scale 1, bias 0 and no flag every decoded position component  *)
(* equals the source component read at                                     *)
(* bufferBase + attributeOffset + i * effectiveStride + c * width, for     *)
(* every vertex i below                                                    *)
(* floor((byteLength - attributeOffset) / effectiveStride) and c in        *)
(* {0, 1, 2}; effectiveStride is the stride of the attribute, or           *)
(* componentCount * width when that is 0.                                  *)
C12_IdentityOptionsGiveSourceValues ==
    (args.fn = "build" /\ args.options = DefaultOptions) =>
        \A k \in 1 .. Len(Returns) :
           Returns[k].ok =>
              /\ Len(Returns[k].out[1].decoded.positions) = SourceVertexCount
              /\ \A i \in 0 .. (SourceVertexCount - 1) : \A c \in 0 .. 2 :
                    Returns[k].out[1].decoded.positions[i + 1][c + 1] = SourceComponent(i, c)

(* Both builders have decoded, with the identity options, three vertices   *)
(* of an attribute whose stride is not that of tight packing.              *)
C12_Witness ==
    /\ args.fn = "build"
    /\ args.options = DefaultOptions
    /\ Len(Returns) = 2
    /\ Returns[1].ok /\ Returns[2].ok
    /\ MeshPosition.stride # 0
    /\ MeshPosition.stride # MeshPosition.size * ComponentByteWidth(MeshPosition.typeEnum)
    /\ Len(Returns[1].out[1].decoded.positions) = 3
    /\ Len(Returns[2].out[1].decoded.positions) = 3

----------------------------------------------------------------------------
(* Properties of the accessors and of the packing.                         *)

(* The scene descriptions and payloads buildGltf returned so far.          *)
Assets == {ret.gltf[k].out[1] : k \in {j \in 1 .. Len(ret.gltf) : ret.gltf[j].ok}}

IndexAccessor(asset) == asset.gltfJsonObj.accessors[asset.gltfJsonObj.primitive.indices + 1]

PositionAccessor(asset) ==
    asset.gltfJsonObj.accessors[asset.gltfJsonObj.primitive.attributes.POSITION[1] + 1]

(* C16: the index accessor has min [0] and as max the greatest value of    *)
(* the decoded unsigned 32-bit index array: no index is above it, and some *)
(* index equals it when the array is not empty.                            *)
C16_IndexAccessorBounds ==
    args.fn = "build" =>
        \A asset \in Assets :
           LET acc == IndexAccessor(asset)
               indices == asset.decoded.indices
           IN  /\ acc.min = <<(<<WideZero>>)>>
               /\ Len(acc.max) = 1 /\ Len(acc.max[1]) = 1
               /\ \A i \in 1 .. Len(indices) : ~WideLt(acc.max[1][1], indices[i])
               /\ indices # <<>> => \E i \in 1 .. Len(indices) : indices[i] = acc.max[1][1]

(* buildGltf has returned an asset of four 32-bit indices whose greatest,  *)
(* which is above 2^31, is neither the first nor the last.                 *)
C16_Witness ==
    /\ args.fn = "build"
    /\ \E asset \in Assets :
          LET indices == asset.decoded.indices
              max == IndexAccessor(asset).max[1][1]
          IN  /\ Len(indices) = 4
              /\ max.hi >= 32768
              /\ indices[1] # max /\ indices[4] # max

(* The accessors of the sections in the claimed packing order: indices,    *)
(* positions, then normals and UVs when the primitive names them.          *)
SectionAccessors(asset) ==
    LET attributes == asset.gltfJsonObj.primitive.attributes
    IN  <<IndexAccessor(asset), PositionAccessor(asset)>>
        \o [k \in 1 .. Len(attributes.NORMAL) |-> asset.gltfJsonObj.accessors[attributes.NORMAL[k] + 1]]
        \o [k \in 1 .. Len(attributes.TEXCOORD_0) |->
               asset.gltfJsonObj.accessors[attributes.TEXCOORD_0[k] + 1]]

Sections(asset) ==
    [k \in 1 .. Len(SectionAccessors(asset)) |->
        asset.gltfJsonObj.bufferViews[SectionAccessors(asset)[k].bufferView + 1]]

SectionEnd(view) == view.byteOffset + view.byteLength

RoundUp4(n) == ((n + 3) \div 4) * 4

ComponentsOf(type) == IF type = "SCALAR" THEN 1 ELSE IF type = "VEC2" THEN 2 ELSE 3

(* C15: the sections of an asset are packed in the order indices,          *)
(* positions, normals, UVs (the last two if present); every byteOffset is  *)
(* a multiple of 4, each section starts at the end of the one before it    *)
(* rounded up to a multiple of 4 (so no two overlap), and                  *)
(* buffers[0].byteLength is the length of the payload, the end of the last *)
(* section.                                                                *)
C15_SectionsPackedInOrder ==
    args.fn = "build" =>
        \A asset \in Assets :
           LET sections == Sections(asset)
               n == Len(sections)
           IN  /\ Len(asset.gltfJsonObj.bufferViews) = n
               /\ \A k \in 1 .. n :
                     /\ sections[k].byteOffset % 4 = 0
                     /\ sections[k].byteLength =
                           4 * SectionAccessors(asset)[k].count * ComponentsOf(SectionAccessors(asset)[k].type)
                     /\ sections[k].byteOffset =
                           (IF k = 1 THEN 0 ELSE RoundUp4(SectionEnd(sections[k - 1])))
                     /\ \A j \in 1 .. (k - 1) : SectionEnd(sections[j]) <= sections[k].byteOffset
               /\ asset.gltfJsonObj.buffers[1].byteLength = asset.binU8.byteLength
               /\ asset.binU8.byteLength = SectionEnd(sections[n])

(* buildGltf has returned an asset with the four sections, none empty.     *)
C15_Witness ==
    /\ args.fn = "build"
    /\ \E asset \in Assets :
          /\ Len(Sections(asset)) = 4
          /\ \A k \in 1 .. 4 : Sections(asset)[k].byteLength > 0

(* a <= b for a minimum or maximum that may be Infinity or -Infinity.      *)
ExtentLe(a, b) == a.t = "ninf" \/ b.t = "inf" \/ (a.t = "num" /\ b.t = "num" /\ a.v <= b.v)

(* C17: the POSITION accessor's min and max are, per axis, the smallest    *)
(* and the largest of the values stored in the position array (after       *)
(* scale, bias, swapYZ and invertZ): every stored position lies within     *)
(* [min, max] on each axis, and min <= max on each axis.                   *)
C17_PositionAccessorBounds ==
    args.fn = "build" =>
        \A asset \in Assets : \A c \in 1 .. 3 :
           LET min == PositionAccessor(asset).min[1][c]
               max == PositionAccessor(asset).max[1][c]
               stored == asset.decoded.positions
           IN  /\ ExtentLe(min, max)
               /\ \A i \in 1 .. Len(stored) :
                     /\ ExtentLe(min, [t |-> "num", v |-> stored[i][c]])
                     /\ ExtentLe([t |-> "num", v |-> stored[i][c]], max)
               /\ stored # <<>> =>
                     /\ \E i \in 1 .. Len(stored) : min = [t |-> "num", v |-> stored[i][c]]
                     /\ \E i \in 1 .. Len(stored) : max = [t |-> "num", v |-> stored[i][c]]

----------------------------------------------------------------------------
(* Properties of the OBJ text.                                             *)

(* The texts buildObj returned so far.                                     *)
ObjTexts == {ret.obj[k].out[1] : k \in {j \in 1 .. Len(ret.obj) : ret.obj[j].ok}}

(* C18: the output of a successful buildObj has one 'v' line per decoded   *)
(* position, one 'vt' line per decoded UV and one 'vn' line per decoded    *)
(* normal (none for an absent channel), and one 'f' line per triangle: the *)
(* number of 'f' lines is the triangle count floor(indexCount / 3) of the  *)
(* header, whether the draw count is a multiple of 3 or not.               *)
C18_ObjLineCounts ==
    args.fn = "build" =>
        \A text \in ObjTexts :
           /\ text.vLines = Len(text.decoded.positions)
           /\ text.vtLines = (IF text.decoded.uvs = <<>> THEN 0 ELSE text.decoded.uvs[1])
           /\ text.vnLines = (IF text.decoded.normals = <<>> THEN 0 ELSE text.decoded.normals[1])
           /\ text.headerTriangles = CallDraw.count.v \div 3
           /\ Len(text.faces) = text.headerTriangles

(* C19: every vertex index token of every 'f' line is an integer in        *)
(* [1, vertexCount], vertexCount being the number of 'v' lines, whatever   *)
(* the indices of the raw buffer, the draw count and the vertex count.     *)
C19_FaceTokensInRange ==
    args.fn = "build" =>
        \A text \in ObjTexts :
           \A f \in 1 .. Len(text.faces) : \A k \in 1 .. 3 :
              /\ text.faces[f][k].t = "num"
              /\ text.faces[f][k].v >= 1
              /\ text.faces[f][k].v <= text.vLines

----------------------------------------------------------------------------
(* Properties of the GLB container.                                        *)

(* The arrays buildGlb returned so far.                                    *)
Glbs == [k \in {j \in 1 .. Len(ret.glb) : ret.glb[j].ok} |-> ret.glb[k].val]

(* The little-endian 32-bit integer at byte offset at (from 0).            *)
Uint32At(bytes, at) ==
    bytes[at + 1] + 256 * bytes[at + 2] + 65536 * bytes[at + 3] + 16777216 * bytes[at + 4]

JsonLength(glb) == Uint32At(glb, 12)

BinLength(glb) == Uint32At(glb, 20 + JsonLength(glb))

(* C13: in every GLB returned the length field at byte 8 is the number of  *)
(* bytes of the array, 12 + 8 + padded JSON length + 8 + padded binary     *)
(* length; the two chunk length fields are multiples of 4 and are the      *)
(* numbers of bytes stored in their chunks.                                *)
C13_GlbLengthFields ==
    args.fn = "buildGlb" =>
        \A k \in DOMAIN Glbs :
           LET glb == Glbs[k]
           IN  /\ Len(glb) >= 28
               /\ Uint32At(glb, 8) = Len(glb)
               /\ 20 + JsonLength(glb) + 8 <= Len(glb)
               /\ Len(glb) = 12 + 8 + JsonLength(glb) + 8 + BinLength(glb)
               /\ JsonLength(glb) % 4 = 0
               /\ BinLength(glb) % 4 = 0
               /\ JsonLength(glb) = RoundUp4(Len(JsonStringify(ret.heap, 1 + k)))
               /\ BinLength(glb) = RoundUp4(Len(args.built.binU8))

(* A GLB was returned whose JSON text and whose payload both needed        *)
(* padding.                                                                *)
C13_Witness ==
    /\ args.fn = "buildGlb"
    /\ Len(ret.glb) >= 1 /\ ret.glb[1].ok
    /\ Len(JsonStringify(ret.heap, 2)) % 4 # 0
    /\ Len(args.built.binU8) % 4 # 0
    /\ Uint32At(ret.glb[1].val, 8) = Len(ret.glb[1].val)

Slice(bytes, at, n) == [i \in 1 .. n |-> bytes[at + i]]

(* C14: the layout of every GLB returned, integers little-endian: magic    *)
(* 0x46546C67, version 2, total length; the JSON chunk (length, tag        *)
(* 0x4E4F534A, the JSON text then 0 to 3 spaces); right after it the       *)
(* binary chunk (length, tag 0x004E4942, the payload then 0 to 3 zero      *)
(* bytes); the padding is the least that reaches a multiple of 4 and the   *)
(* text and the payload are prefixes of their chunks.                      *)
C14_GlbLayout ==
    args.fn = "buildGlb" =>
        \A k \in DOMAIN Glbs :
           LET glb == Glbs[k]
               text == JsonStringify(ret.heap, 1 + k)
               payload == args.built.binU8
               jsonPad == JsonLength(glb) - Len(text)
               binStart == 20 + JsonLength(glb) + 8
               binPad == BinLength(glb) - Len(payload)
           IN  /\ Slice(glb, 0, 4) = <<103, 108, 84, 70>>
               /\ Slice(glb, 4, 4) = <<2, 0, 0, 0>>
               /\ Uint32At(glb, 8) = Len(glb)
               /\ Slice(glb, 16, 4) = <<74, 83, 79, 78>>
               /\ jsonPad \in 0 .. 3
               /\ (Len(text) + jsonPad) % 4 = 0
               /\ Slice(glb, 20, Len(text)) = text
               /\ Slice(glb, 20 + Len(text), jsonPad) = [i \in 1 .. jsonPad |-> 32]
               /\ Slice(glb, 20 + JsonLength(glb) + 4, 4) = <<66, 73, 78, 0>>
               /\ binPad \in 0 .. 3
               /\ (Len(payload) + binPad) % 4 = 0
               /\ Slice(glb, binStart, Len(payload)) = payload
               /\ Slice(glb, binStart + Len(payload), binPad) = [i \in 1 .. binPad |-> 0]
               /\ Len(glb) = binStart + BinLength(glb)

(* A GLB was returned whose payload of four bytes needed no padding and    *)
(* whose JSON text needed some.                                            *)
C14_Witness ==
    /\ args.fn = "buildGlb"
    /\ Len(ret.glb) >= 1 /\ ret.glb[1].ok
    /\ Len(args.built.binU8) = 4
    /\ JsonLength(ret.glb[1].val) > Len(JsonStringify(ret.heap, 2))
    /\ Slice(ret.glb[1].val, 16, 4) = <<74, 83, 79, 78>>

(* The scene description that was passed to buildGlb, as it is now and as  *)
(* it was before the first call.                                           *)
InputNow == ret.heap.objects[args.built.gltfJsonObj]

InputBefore == args.heap.objects[args.built.gltfJsonObj]

(* JSON.parse(JSON.stringify(x)) of an optional number.                    *)
CopyOfNumber(opt) == [j \in 1 .. Len(opt) |-> IF opt[j].t = "num" THEN opt[j] ELSE [t |-> "null", v |-> 0]]

(* C20: buildGlb leaves its input unchanged (the scene description still   *)
(* carries buffers[0].uri and its byteLength); the JSON embedded in the    *)
(* GLB is a copy whose buffers[0] has no uri and has the length of the     *)
(* payload as byteLength; two calls on the same asset return the same      *)
(* bytes.                                                                  *)
C20_BuildGlbLeavesInputUnchanged ==
    (args.fn = "buildGlb" /\ ret.glb # <<>>) =>
        /\ InputNow = InputBefore
        /\ \A b \in 1 .. Len(args.heap.buffers) : ret.heap.buffers[b] = args.heap.buffers[b]
        /\ \A k \in DOMAIN Glbs :
              LET copy == ret.heap.objects[1 + k]
              IN  /\ copy.scene = CopyOfNumber(InputBefore.scene)
                  /\ Len(copy.buffers) = Len(InputBefore.buffers)
                  /\ InputBefore.buffers # <<>> =>
                        /\ Len(copy.buffers[1]) = Len(InputBefore.buffers[1])
                        /\ \A i \in 1 .. Len(copy.buffers[1]) :
                              LET mine == ret.heap.buffers[copy.buffers[1][i]]
                                  theirs == args.heap.buffers[InputBefore.buffers[1][i]]
                              IN  /\ copy.buffers[1][i] # InputBefore.buffers[1][i]
                                  /\ IF i = 1
                                     THEN /\ mine.uri = <<>>
                                          /\ mine.byteLength = <<Num(Len(args.built.binU8))>>
                                     ELSE /\ mine.uri = theirs.uri
                                          /\ mine.byteLength = CopyOfNumber(theirs.byteLength)
                  /\ Slice(Glbs[k], 20, Len(JsonStringify(ret.heap, 1 + k)))
                        = JsonStringify(ret.heap, 1 + k)
        /\ \A j, k \in DOMAIN Glbs : Glbs[j] = Glbs[k]

(* buildGlb ran twice on an asset whose buffers[0] has a uri and a         *)
(* byteLength that is not the length of the payload, and returned the same *)
(* bytes twice.                                                            *)
C20_Witness ==
    /\ args.fn = "buildGlb"
    /\ Len(ret.glb) = 2
    /\ ret.glb[1].ok /\ ret.glb[1] = ret.glb[2]
    /\ InputBefore.buffers # <<>> /\ Len(InputBefore.buffers[1]) = 2
    /\ args.heap.buffers[InputBefore.buffers[1][1]].uri # <<>>
    /\ args.heap.buffers[InputBefore.buffers[1][1]].byteLength = <<Num(7)>>
    /\ ret.heap.buffers[InputNow.buffers[1][1]].uri # <<>>
    /\ Len(args.built.binU8) = MaxPayload

----------------------------------------------------------------------------
(* buildObj against buildGltf.                                             *)

(* A call of each builder on the same raw buffer, selection and options    *)
(* has returned.                                                           *)
BothReturned == args.fn = "build" /\ ret.gltf # <<>> /\ ret.obj # <<>>

(* The number an index is, whether read (buildObj keeps what readScalar    *)
(* returned) or stored as an unsigned 32-bit integer (buildGltf).          *)
IndexNumber(v) == IF v.k = "f32" THEN WideOfInt(FloatValue(v)) ELSE Wide(v.hi, v.lo)

SameOutcome == ret.gltf[1].ok = ret.obj[1].ok

(* The kind of an error: RangeError for those the runtime throws on a bad  *)
(* array length or a read outside the DataView, and for the errors the     *)
(* decoders throw themselves (plain Error) their message.                  *)
ErrorKind(err) ==
    IF err \in {InvalidTypedArrayLength, InvalidArrayLength, DataViewRangeError}
    THEN "RangeError"
    ELSE err

SameError ==
    (~ret.gltf[1].ok /\ ~ret.obj[1].ok) => ErrorKind(ret.gltf[1].err) = ErrorKind(ret.obj[1].err)

SameVertexCount ==
    ret.gltf[1].out[1].decoded.vertexCount = ret.obj[1].out[1].decoded.vertexCount

SamePositions == ret.gltf[1].out[1].decoded.positions = ret.obj[1].out[1].decoded.positions

SameIndices ==
    LET a == ret.gltf[1].out[1].decoded.indices
        b == ret.obj[1].out[1].decoded.indices
    IN  Len(a) = Len(b) /\ \A i \in 1 .. Len(a) : IndexNumber(a[i]) = IndexNumber(b[i])

SameChannels ==
    /\ ret.gltf[1].out[1].decoded.normals = ret.obj[1].out[1].decoded.normals
    /\ ret.gltf[1].out[1].decoded.uvs = ret.obj[1].out[1].decoded.uvs

(* C21: for the same raw buffer, selection and options, buildObj and       *)
(* buildGltf both succeed or both fail with the same kind of error, and on *)
(* success they agree on the position vertex count, on every transformed   *)
(* position component, on the index sequence, and on the presence and the  *)
(* vertex count of the normal and of the UV channel.                       *)
C21_ObjAndGltfDecodeAlike ==
    BothReturned =>
        /\ SameOutcome
        /\ SameError
        /\ (ret.gltf[1].ok /\ ret.obj[1].ok) =>
               SameVertexCount /\ SamePositions /\ SameIndices /\ SameChannels

(* Properties of the byte ranges read.                                     *)

(* C28: in buildGltf and in buildObj every byte read while decoding the    *)
(* indices lies inside [binOffset, binOffset + byteLength) of the index    *)
(* descriptor, and every byte read while decoding the positions lies       *)
(* inside that range of the position descriptor, whatever the draw count,  *)
(* the index offset, the attribute offset and the stride.                  *)
C28_IndexAndPositionReadsStayInTheirBuffer ==
    args.fn = "build" =>
        \A i \in 1 .. Len(Returns) :
           /\ Returns[i].reads.indices \subseteq
                   DescriptorRange(CallMap[CallDraw.elementArrayBufferId[1]])
           /\ Returns[i].reads.positions \subseteq
                   DescriptorRange(CallMap[Candidate(PositionRule)[1].bufferId])

(* Properties of the face lines.                                           *)

(* C29: in every buildObj output all corners of all face lines have the    *)
(* same format, chosen by channel presence (a vt field iff the UV channel  *)
(* is present, a vn field iff the normal channel is), and every vt and vn  *)
(* index written is at most the number of 'vt', respectively 'vn', lines   *)
(* of the output, also when the channel has fewer entries than there are   *)
(* positions.  (Tokens that are not numbers are left to C19.)              *)
C29_FaceFieldsReferToWrittenLines ==
    args.fn = "build" =>
        \A text \in ObjTexts :
           \A f \in 1 .. Len(text.corners) : \A k \in 1 .. 3 :
              LET corner == text.corners[f][k]
              IN  /\ (corner.vt # <<>>) = (text.decoded.uvs # <<>>)
                  /\ (corner.vn # <<>>) = (text.decoded.normals # <<>>)
                  /\ (corner.vt # <<>> /\ corner.vt[1].t = "num") => corner.vt[1].v <= text.vtLines
                  /\ (corner.vn # <<>> /\ corner.vn[1].t = "num") => corner.vn[1].v <= text.vnLines

----------------------------------------------------------------------------
(* Properties of the worker's message handling.                            *)

(* The message the step handles, and what the step sent to the page.       *)
Request == Head(inbox)

Sends == SubSeq(outbox', Len(outbox) + 1, Len(outbox'))

(* The worker holds a capture: json, raw buffer and selection.             *)
Stored == captureJson # <<>> /\ captureBin # <<>> /\ selected # <<>>

(* The step ran the decode on the capture the worker holds after it: one   *)
(* more read of that buffer, by the worker, and a reply that is the GLB    *)
(* with its summary or the error the decode threw.                         *)
DecodeRan(purpose) ==
    /\ Len(mem'.reads) = Len(mem.reads) + 1
    /\ mem'.reads[Len(mem'.reads)].by = "worker"
    /\ mem'.reads[Len(mem'.reads)].id = captureBin'[1].id
    /\ Len(Sends) = 1
    /\ LET built == buildGltf(captureBin'[1], selected'[1], Request.options)
       IN  IF built.ok
           THEN /\ Sends[1].type = "result" /\ Sends[1].purpose = purpose
                /\ Sends[1].glb = built.out /\ ~Sends[1].previewSkipped
                /\ Sends[1].stats = <<buildStats(selected'[1])>>
           ELSE Sends[1].type = "error" /\ Sends[1].message = built.err

(* The step skipped the preview: no read of a buffer, one result with the  *)
(* summary, previewSkipped and no GLB.                                     *)
PreviewSkipped ==
    /\ mem'.reads = mem.reads
    /\ Len(Sends) = 1
    /\ Sends[1].type = "result" /\ Sends[1].purpose = "preview"
    /\ Sends[1].previewSkipped /\ Sends[1].glb = <<>> /\ Sends[1].transfer = <<>>
    /\ Sends[1].stats = <<buildStats(selected'[1])>>

(* A load whose trace the selector accepts, or a rebuild of a stored       *)
(* capture.                                                                *)
PreviewRequested ==
    \/ /\ Request.type = "load"
       /\ ~pickMainDrawCallThrows(Request.json[1])
       /\ pickMainDrawCall(Request.json[1]) # <<>>
    \/ Request.type = "rebuild" /\ Stored

(* C22: a load or rebuild on a stored capture whose raw buffer is larger   *)
(* than MAX_PREVIEW_BYTES is answered with a preview result that carries   *)
(* the summary, previewSkipped = true and no GLB, without a decode; with a *)
(* buffer of MAX_PREVIEW_BYTES or less the decode runs; a download of a    *)
(* stored capture always runs the decode, whatever the size.               *)
C22_PreviewSkippedAboveThreshold ==
    [][inbox # <<>> =>
         /\ PreviewRequested =>
               IF captureBin'[1].byteLength > MAX_PREVIEW_BYTES
               THEN PreviewSkipped
               ELSE DecodeRan("preview")
         /\ (Request.type = "download" /\ Stored) => DecodeRan("download")]_vars

(* A preview skipped for a buffer above the threshold, then a preview      *)
(* decoded for a buffer of exactly the threshold.                          *)
C22_Witness ==
    /\ args.fn = "none"
    /\ Len(outbox) = 2
    /\ outbox[1].previewSkipped
    /\ outbox[2].type = "result" /\ outbox[2].purpose = "preview" /\ outbox[2].glb # <<>>
    /\ captureBin = <<ExactBin>>

(* No load or store was received yet, or the trace of the last one holds   *)
(* no eligible draw call (the worker sets captureJson on every load and    *)
(* store, see the first part of C24).                                      *)
NoEligibleCapture ==
    \/ captureJson = <<>>
    \/ \A i \in 1 .. Len(DrawsOf(captureJson[1])) : ~Eligible(DrawsOf(captureJson[1])[i])

(* The selector's result on a trace, null when it returns none or fails.   *)
SelectorResult(json) == IF pickMainDrawCallThrows(json) THEN <<>> ELSE pickMainDrawCall(json)

(* C24: every load or store replaces the worker's trace, raw buffer and    *)
(* selection by those of the message, the selection being the selector's   *)
(* result on that trace (null when it finds no draw, so that a failed load *)
(* or store discards an earlier capture); a rebuild or download is         *)
(* answered with the 'Missing capture data in worker' error exactly when   *)
(* no load or store was received or the last received trace had no         *)
(* eligible draw call, and otherwise the decode is attempted on the last   *)
(* received trace and buffer.                                              *)
C24_MissingCaptureIffNoEligibleDraw ==
    [][inbox # <<>> =>
         /\ Request.type \in {"load", "store"} =>
               /\ captureJson' = Request.json
               /\ captureBin' = Request.bin
               /\ selected' = SelectorResult(Request.json[1])
         /\ Request.type \in {"rebuild", "download"} =>
               /\ UNCHANGED <<captureJson, captureBin, selected>>
               /\ Len(Sends) = 1
               /\ IF NoEligibleCapture
                  THEN Sends[1].type = "error" /\ Sends[1].message = MissingCapture
                  ELSE \/ PreviewSkipped
                       \/ DecodeRan(IF Request.type = "rebuild" THEN "preview" ELSE "download")]_vars

(* What the worker posted: the outbox without the error events.            *)
Posted(box) == SelectSeq(box, LAMBDA m : m.type \in {"result", "error"})

(* C25: for every load, store, rebuild or download message it handles the  *)
(* worker posts exactly one reply, a result or an error, before it handles *)
(* the next message, also when the decode throws and when the preview is   *)
(* skipped.                                                                *)
C25_OneReplyPerMessage ==
    [][inbox # <<>> => Len(Posted(outbox')) = Len(Posted(outbox)) + 1]_vars

----------------------------------------------------------------------------
(* Properties of the App component and its worker.                         *)

(* The buffers a side holds a reference to: the page those of the reads it *)
(* awaits, the worker its stored capture and those of the messages queued  *)
(* for it.                                                                 *)
HeldByPage == {ui.reading[i].captureBin[1].id : i \in {k \in 1 .. Len(ui.reading) : ui.reading[k].captureBin # <<>>}}

HeldByWorker ==
    {inbox[i].bin[1].id : i \in {k \in 1 .. Len(inbox) : inbox[k].bin # <<>>}}
    \cup {captureBin[i].id : i \in 1 .. Len(captureBin)}

(* C23: no side reads a buffer it has transferred away.  Every read of a   *)
(* buffer's bytes is made by the side that owns the buffer at that moment  *)
(* (the page never reads a capture buffer it has posted in a store, the    *)
(* worker never reads a GLB buffer it has posted); the buffers the page    *)
(* still holds are its own and those the worker holds are the worker's;    *)
(* and no reply of the worker carries the stored capture buffer in its     *)
(* transfer list, so the stored capture stays readable by the worker.      *)
C23_NoReadAfterTransfer ==
    /\ \A k \in 1 .. Len(mem.reads) : mem.reads[k].owner = mem.reads[k].by
    /\ \A id \in HeldByPage : mem.owner[id] = "ui"
    /\ \A id \in HeldByWorker : mem.owner[id] = "worker"
    /\ \A k \in 1 .. Len(outbox) : \A j \in 1 .. Len(outbox[k].transfer) :
          /\ outbox[k].transfer[j] \notin HeldByWorker
          /\ mem.owner[outbox[k].transfer[j]] = "ui"

(* A capture posted in a store is decoded for a download, the page reads   *)
(* the GLB it is sent, and the worker decodes the same capture again.      *)
C23_Witness ==
    /\ Len(mem.reads) >= 3
    /\ mem.reads[1].by = "worker"
    /\ mem.reads[2].by = "ui"
    /\ mem.reads[3].by = "worker"
    /\ mem.reads[3].id = mem.reads[1].id
    /\ mem.reads[2].id # mem.reads[1].id

(* C26: whenever hasCapture is true the worker the page refers to holds a  *)
(* stored capture with a selection, and no download is answered with the   *)
(* 'Missing capture data in worker' error (the page sends a download only  *)
(* while hasCapture is true).                                              *)
C26_HasCaptureMeansWorkerHoldsCapture ==
    /\ ui.hasCapture => Stored
    /\ \A k \in 1 .. Len(outbox) : outbox[k].message # MissingCapture

(* C27: under fair scheduling of the worker, of the delivery of its        *)
(* replies, of the effect and of the file reads, isBuilding once true is   *)
(* eventually false again.                                                 *)
C27_BuildingEventuallyEnds == ui.isBuilding ~> ~ui.isBuilding

====
